---- MODULE Spec2Model ----
(***************************************************************************)
(* A model of the generation service (src/services/geminiService.ts) and   *)
(* of the chat shell that drives it (App, src/unnamed/part_001).           *)
(*                                                                         *)
(* A text is a sequence of string pieces and stands for their              *)
(* concatenation: "" is << >>, s + t is s \o t, a template literal is the  *)
(* sequence of its pieces.  Texts whose characters matter (error messages) *)
(* are written one character per piece.                                    *)
(*                                                                         *)
(* The module holds one specification per component: SpecStream            *)
(* (streamResponse), SpecLive (LiveClient), SpecVideo (generateVideo),     *)
(* SpecImage (generateImage) and SpecApp (App.handleSendMessage).  A       *)
(* specification leaves the variables of the other components at their     *)
(* idle values.                                                            *)
(***************************************************************************)
EXTENDS Integers, Sequences, FiniteSets, TLC

VARIABLES
    \* ---- streamResponse (one call) ----
    srMode,         \* the mode argument
    srAttachments,  \* the attachments argument: a sequence of MIME types
    signal,         \* the AbortSignal: "none" (undefined), "live", "aborted"
    srPc,           \* "idle", "start", "awaitStream", "loop", "returned", "thrown"
    srRequest,      \* what chats.create received: [model, config]
    fullText,       \* the accumulator
    chunks,         \* the arguments of the onChunk calls, in call order
    received,       \* the fragments taken from the stream while not cancelled
    atAbort,        \* the onChunk arguments delivered when the signal aborted
    srResult,       \* the returned text, or the thrown Error's message
    streamCalls,    \* the number of sendMessageStream calls
    srFailure,      \* << >>, or <<[message, signal]>>: the failure of the
                    \* stream and the signal's state when it failed
    \* ---- LiveClient (one instance) ----
    session, inputContext, outputContext, inputSource, processor,
    nextStartTime,
    connectPc,      \* "idle", "awaitMedia", "awaitSession", "done"
    transport,      \* "none", "connecting", "open", "errored", "closing", "closed"
    statusLog,      \* the arguments of the onStatusChange calls, in call order
    clock,          \* outputContext.currentTime
    scheduled,      \* the source.start calls: [start, duration, now, cursor]
    failures,       \* the failures met, in order: [kind, attempts]
    openAttempts,   \* the number of ai.live.connect calls
    captured,       \* the number of onaudioprocess events
    pending,        \* the frames whose sessionPromise.then job is queued
    sent,           \* the sendRealtimeInput calls: [frame, opened]
    disconnectCalled, \* << >>, or <<n>>: disconnect() has returned, with n
                    \* frames sent by then
    afterEnd,       \* what happened after a terminal status was notified:
                    \* a subset of {"connected", "capture", "clip"}
    \* ---- generateVideo (one call) ----
    gvPc,           \* "idle", "start", "awaitInitial", "loop", "awaitPoll",
                    \* "returned", "thrown"
    gvInput,        \* [prompt, aspectRatio, resolution, attachment]
    gvPayload,      \* what generateVideos received
    operation,      \* the held operation: [done, uri]
    gvInitialDone,  \* whether the initial operation was done
    pollCalls,      \* the number of getVideosOperation calls
    pollLog,        \* the getVideosOperation answers, in order
    waits,          \* the waits before the polls, in ms, in order
    gvFailed,       \* whether a backend call of generateVideo rejected
    gvResult,
    \* ---- generateImage (one call) ----
    giPc,           \* "idle", "start", "awaitResponse", "returned", "thrown"
    giInput,        \* [prompt, config, attachment]
    giCalls,        \* the generateContent calls issued, in order
    giResponse,     \* the parts of the answer
    giAnswered,     \* whether generateContent resolved
    giResult,
    \* ---- App ----
    isStreaming, abortControllerRef,
    aborted,        \* the AbortControllers whose signal is aborted
    requests,       \* per handleSendMessage call: its progress and its
                    \* model message
    calls,          \* the service functions invoked, in order
    lastChat,       \* << >>, or <<c>>: the latest chats.create request
    titleCalls,     \* the number of generateChatTitle calls
    \* ---- mapError (one call) ----
    mePc,           \* "idle", "start", "returned"
    meMessage,      \* error.message, one character per element
    meResult,       \* the message of the Error returned
    \* ---- generateSpeech (one call) ----
    gsPc,           \* "idle", "start", "awaitResponse", "returned", "thrown"
    gsText,         \* the text argument
    gsCalls,        \* the generateContent calls issued, in order
    gsPcm,          \* << >>, or <<bytes>>: the PCM bytes the backend sent
    gsAnswered,     \* whether generateContent resolved
    gsResult,       \* the bytes of the Blob behind the returned URL, or the
                    \* thrown Error's message
    \* ---- the sample conversions of LiveClient (one frame) ----
    cdPc,           \* "idle", "start", "encoded", "decoded"
    inputData,      \* the captured samples: fractions [num, den]
    pcm16,          \* the Int16Array filled from them
    channelData,    \* the samples decoded from it: fractions [num, den]
    \* ---- App: the live toggle and the LiveClients it has created ----
    clients,        \* the LiveClients created so far, in order: records
    liveClientRef,  \* liveClientRef.current: 0 (null), or a client's number
    isLiveActive,   \* the isLiveActive state
    \* ---- App: the messages of the current session and its sends ----
    currentMessages, \* the session's messages as last rendered: records
    sends,          \* the handleSendMessage calls so far, with the history
                    \* each handed to streamResponse and what it became
    hsStreaming,    \* the isStreaming state
    hsRef           \* abortControllerRef.current: 0 (null), or a send

streamVars == <<srMode, srAttachments, signal, srPc, srRequest, fullText,
                chunks, received, atAbort, srResult, streamCalls, srFailure>>
liveVars   == <<session, inputContext, outputContext, inputSource, processor,
                nextStartTime, connectPc, transport, statusLog, clock,
                scheduled, failures, openAttempts, captured, pending, sent,
                disconnectCalled, afterEnd>>
videoVars  == <<gvPc, gvInput, gvPayload, operation, gvInitialDone,
                pollCalls, pollLog, waits, gvFailed, gvResult>>
imageVars  == <<giPc, giInput, giCalls, giResponse, giAnswered,
                giResult>>
appVars    == <<isStreaming, abortControllerRef, aborted, requests, calls,
                lastChat, titleCalls>>
errVars    == <<mePc, meMessage, meResult>>
speechVars == <<gsPc, gsText, gsCalls, gsPcm, gsAnswered, gsResult>>
codecVars  == <<cdPc, inputData, pcm16, channelData>>
toggleVars == <<clients, liveClientRef, isLiveActive>>
historyVars == <<currentMessages, sends, hsStreaming, hsRef>>
vars       ==
    <<streamVars, liveVars, videoVars, imageVars,
      appVars, errVars, speechVars, codecVars, toggleVars, historyVars>>

Null == "null"

\* ------------------------------------------------------------------ bounds
MaxFrags   == 3   \* fragments one stream delivers
MaxAtts    == 2   \* attachments of one request
MaxClock   == 4   \* the playback clock stops advancing here
MaxClip    == 2   \* samples in one inbound clip
MaxClips   == 3   \* inbound clips one session receives
MaxStatus  == 4   \* onStatusChange calls one client makes
MaxFrames  == 2   \* onaudioprocess events one client handles
MaxLiveClients == 2  \* LiveClients the App creates
MaxSends   == 2   \* sends in one session
MaxPcmBytes == 4  \* bytes in one synthesized PCM payload
Grid       == 65536  \* sample values are the fractions k / Grid in [-1, 1]
MaxPolls   == 3   \* getVideosOperation calls one generateVideo makes
MaxParts   == 2   \* parts in one generateContent answer
MaxReq     == 2   \* handleSendMessage calls in one App run
MaxChunks  == 2   \* chunks one App request receives

\* --------------------------------------------------------- model constants
CHAT_MODEL       == "gemini-3-pro-preview"
THINKING_MODEL   == "gemini-3-pro-preview"
MAPS_MODEL       == "gemini-2.5-flash"
FAST_MODEL       == "gemini-2.5-flash-lite"
AUDIO_MODEL      == "gemini-2.5-flash"
TTS_MODEL        == "gemini-2.5-flash-preview-tts"
IMAGE_GEN_MODEL  == "gemini-3-pro-image-preview"
IMAGE_EDIT_MODEL == "gemini-2.5-flash-image"
VIDEO_GEN_MODEL  == "veo-3.1-fast-generate-preview"
API_KEY          == "KEY"

thinkingBudget == 32768

\* -------------------------------------------------------------------- data
RECURSIVE Concat(_)
Concat(seq) == IF seq = << >> THEN << >> ELSE Head(seq) \o Concat(Tail(seq))

SeqsUpTo(S, n) == UNION {[1..k -> S] : k \in 0..n}

\* chunk.text of a stream fragment; << >> is a chunk without text
Fragments == {<< >>, <<"a">>, <<"b", "a">>}

\* A MIME type "type/subtype".
MimeTypes == {[type |-> "audio", subtype |-> "mpeg"],
              [type |-> "image", subtype |-> "png"]}
AttachmentLists == SeqsUpTo(MimeTypes, MaxAtts)

StreamModes == {"chat", "thinking", "fast", "maps"}

\* mimeType.startsWith('audio/')
IsAudio(mime) == mime.type = "audio"

\* -------------------------------------------------------------- mapError
RawMessages == {<< >>,
                <<"4", "2", "9">>,
                <<"E", "x", "h", "a", "u", "s", "t", "e", "d">>,
                <<"S", "A", "F", "E", "T", "Y">>,
                <<"o", "o", "p", "s">>}

Lower(c) == CASE c = "E" -> "e" [] c = "S" -> "s" [] c = "A" -> "a"
              [] c = "F" -> "f" [] c = "T" -> "t" [] c = "Y" -> "y"
              [] c = "X" -> "x" [] c = "H" -> "h" [] c = "U" -> "u"
              [] c = "D" -> "d"
              [] OTHER -> c

ToLowerCase(s) == [i \in 1..Len(s) |-> Lower(s[i])]

Includes(s, pat) ==
    \E i \in 0..(Len(s) - Len(pat)) : SubSeq(s, i + 1, i + Len(pat)) = pat

\* a variant that matches without lowering the message
mapErrorCaseSensitive(message) ==
    IF Includes(message, <<"4", "2", "9">>)
       \/ Includes(message, <<"e", "x", "h", "a", "u", "s", "t", "e", "d">>)
    THEN <<"Rate limit exceeded. Try again later.">>
    ELSE IF Includes(message, <<"s", "a", "f", "e", "t", "y">>)
    THEN <<"Content blocked by safety settings.">>
    ELSE IF message # << >> THEN message
    ELSE <<"An unexpected error occurred.">>

mapError(message) ==
    LET msg == ToLowerCase(message) IN
    IF Includes(msg, <<"4", "2", "9">>)
       \/ Includes(msg, <<"e", "x", "h", "a", "u", "s", "t", "e", "d">>)
    THEN <<"Rate limit exceeded. Try again later.">>
    ELSE IF Includes(msg, <<"s", "a", "f", "e", "t", "y">>)
    THEN <<"Content blocked by safety settings.">>
    ELSE IF message # << >> THEN message
    ELSE <<"An unexpected error occurred.">>

\* error.message of the errors mapError is applied to: a core text between
\* a prefix and a suffix of at most MaxAffix characters
MaxAffix == 1
AffixChars == {"9", "y", "o"}
Affixes == SeqsUpTo(AffixChars, MaxAffix)
Cores == {<< >>,
          <<"4", "2", "9">>,
          <<"4", "2">>,
          <<"e", "x", "h", "a", "u", "s", "t", "e", "d">>,
          <<"E", "x", "h", "a", "u", "s", "t", "e", "d">>,
          <<"E", "X", "H", "A", "U", "S", "T", "E", "D">>,
          <<"e", "x", "h", "a", "u", "s", "t">>,
          <<"s", "a", "f", "e", "t", "y">>,
          <<"S", "a", "f", "e", "t", "y">>,
          <<"S", "A", "F", "E", "T", "Y">>,
          <<"s", "a", "f", "e", "t">>,
          <<"s", "a", "f", "e", "t", "y", " ", "4", "2", "9">>,
          <<"o", "o", "p", "s">>}
ErrorMessages ==
    {pre \o core \o suf : pre \in Affixes, core \in Cores, suf \in Affixes}

ErrIdle == mePc = "idle" /\ meMessage = << >> /\ meResult = << >>

ErrInit == mePc = "start" /\ meMessage \in ErrorMessages /\ meResult = << >>

OnlyErr ==
    UNCHANGED <<streamVars, liveVars, videoVars, imageVars, appVars,
                speechVars, codecVars,
                toggleVars,
                historyVars>>

\* mapError(error) returns
MeReturn ==
    /\ mePc = "start"
    /\ meResult' = mapError(meMessage)
    /\ mePc' = "returned"
    /\ UNCHANGED meMessage
    /\ OnlyErr

\* ========================================================= streamResponse
StreamIdle ==
    /\ srMode = "chat" /\ srAttachments = << >> /\ signal = "none"
    /\ srPc = "idle" /\ srRequest = Null /\ fullText = << >>
    /\ chunks = << >> /\ received = << >> /\ atAbort = << >>
    /\ srResult = << >> /\ streamCalls = 0 /\ srFailure = << >>

StreamInit ==
    /\ srMode \in StreamModes
    /\ srAttachments \in AttachmentLists
    /\ signal \in {"none", "live"}
    /\ srPc = "start" /\ srRequest = Null /\ fullText = << >>
    /\ chunks = << >> /\ received = << >> /\ atAbort = << >>
    /\ srResult = << >> /\ streamCalls = 0 /\ srFailure = << >>

HasAudio(attachments) ==
    \E i \in 1..Len(attachments) : IsAudio(attachments[i])

SelectModel(mode, attachments) ==
    IF mode = "thinking" THEN THINKING_MODEL
    ELSE IF mode = "fast" THEN FAST_MODEL
    ELSE IF mode = "maps" THEN MAPS_MODEL
    ELSE IF Len(attachments) > 0 /\ HasAudio(attachments) THEN AUDIO_MODEL
    ELSE CHAT_MODEL

\* config.thinkingConfig and config.tools: absent is {}
SelectConfig(mode) ==
    [thinkingConfig |-> IF mode = "thinking" THEN {thinkingBudget} ELSE {},
     tools          |-> IF mode = "maps" THEN {"googleMaps"} ELSE {}]

ChatRequest(mode, attachments) ==
    [model |-> SelectModel(mode, attachments), config |-> SelectConfig(mode)]

\* a variant that keeps the latest fragment only
AccumulateLatest(acc, text) == IF text # << >> THEN text ELSE acc

\* the body of the for-await loop after the cancellation test
Accumulate(acc, text) == IF text # << >> THEN acc \o text ELSE acc

\* a variant that calls onChunk for fragments without text too
DeliverAll(log, text) == Append(log, text)

Deliver(log, text) == IF text # << >> THEN Append(log, text) ELSE log

\* a variant that swallows every failure
CatchSwallow(sig, message) == [pc |-> "returned", result |-> << >>]

\* the catch block: [pc, result]
Catch(sig, message) ==
    IF sig = "aborted" THEN [pc |-> "returned", result |-> << >>]
    ELSE [pc |-> "thrown", result |-> mapError(message)]

OnlyStream ==
    UNCHANGED <<liveVars, videoVars, imageVars, appVars,
      errVars, speechVars, codecVars,
                toggleVars,
                historyVars>>

\* lines 66-112: up to the await of chat.sendMessageStream
SrStart ==
    /\ srPc = "start"
    /\ srRequest' = ChatRequest(srMode, srAttachments)
    /\ srPc' = "awaitStream"
    /\ streamCalls' = streamCalls + 1
    /\ UNCHANGED <<srMode, srAttachments, signal, fullText, chunks, received,
                   atAbort, srResult, srFailure>>
    /\ OnlyStream

\* sendMessageStream resolves; line 116
SrStreamOpens ==
    /\ srPc = "awaitStream"
    /\ srPc' = "loop"
    /\ fullText' = << >>
    /\ UNCHANGED <<srMode, srAttachments, signal, srRequest, chunks, received,
                   atAbort, srResult, streamCalls, srFailure>>
    /\ OnlyStream

\* sendMessageStream rejects, or the stream iterator throws
SrFails ==
    /\ srPc \in {"awaitStream", "loop"}
    /\ \E message \in RawMessages :
         LET c == Catch(signal, message) IN
         /\ srPc' = c.pc
         /\ srResult' = c.result
         /\ srFailure' = <<[message |-> message, signal |-> signal]>>
    /\ UNCHANGED <<srMode, srAttachments, signal, srRequest, fullText, chunks,
                   received, atAbort, streamCalls>>
    /\ OnlyStream

\* one iteration of the for-await loop, lines 118-125
SrChunk ==
    /\ srPc = "loop"
    /\ Len(received) < MaxFrags
    /\ \E text \in Fragments :
         IF signal = "aborted"
         THEN /\ srPc' = "returned"
              /\ srResult' = fullText
              /\ UNCHANGED <<fullText, chunks, received>>
         ELSE /\ fullText' = Accumulate(fullText, text)
              /\ chunks' = Deliver(chunks, text)
              /\ received' = Append(received, text)
              /\ UNCHANGED <<srPc, srResult>>
    /\ UNCHANGED <<srMode, srAttachments, signal, srRequest, atAbort,
                   streamCalls, srFailure>>
    /\ OnlyStream

\* the stream is exhausted; line 126
SrStreamEnds ==
    /\ srPc = "loop"
    /\ srPc' = "returned"
    /\ srResult' = fullText
    /\ UNCHANGED <<srMode, srAttachments, signal, srRequest, fullText, chunks,
                   received, atAbort, streamCalls, srFailure>>
    /\ OnlyStream

\* the caller aborts the controller while the call is running
SrAbort ==
    /\ srPc \in {"start", "awaitStream", "loop"}
    /\ signal = "live"
    /\ signal' = "aborted"
    /\ atAbort' = chunks
    /\ UNCHANGED <<srMode, srAttachments, srPc, srRequest, fullText, chunks,
                   received, srResult, streamCalls, srFailure>>
    /\ OnlyStream

\* ============================================================= LiveClient
\* Time is counted in samples of the 24000 Hz output context: a clip of n
\* samples has duration n.
LiveIdle ==
    /\ session = Null /\ inputContext = Null /\ outputContext = Null
    /\ inputSource = Null /\ processor = Null /\ nextStartTime = 0
    /\ connectPc = "done" /\ transport = "none" /\ statusLog = << >>
    /\ clock = 0 /\ scheduled = << >>
    /\ failures = << >> /\ openAttempts = 0
    /\ captured = 0 /\ pending = << >> /\ sent = << >>
    /\ disconnectCalled = << >> /\ afterEnd = {}

\* the state after the constructor, lines 215-225
LiveInit ==
    /\ session = Null /\ inputContext = Null /\ outputContext = Null
    /\ inputSource = Null /\ processor = Null /\ nextStartTime = 0
    /\ connectPc = "idle" /\ transport = "none" /\ statusLog = << >>
    /\ clock = 0 /\ scheduled = << >>
    /\ failures = << >> /\ openAttempts = 0
    /\ captured = 0 /\ pending = << >> /\ sent = << >>
    /\ disconnectCalled = << >> /\ afterEnd = {}

OnlyLive ==
    UNCHANGED <<streamVars, videoVars, imageVars, appVars,
      errVars, speechVars, codecVars,
                toggleVars,
                historyVars>>

onStatusChange(log, status) == Append(log, status)

\* node?.disconnect() and context?.close()
Disconnected(node) == IF node = Null THEN Null ELSE "disconnected"
Closed(context)    == IF context = Null THEN Null ELSE "closed"

\* session?.close()
SessionClose(s, t) == IF s # Null /\ t \in {"open", "errored"} THEN "closing" ELSE t

\* a variant that always starts the clip now
StartNow(cursor, currentTime) == currentTime

\* a variant that never resets the cursor
StartAtCursor(cursor, currentTime) == cursor

\* lines 322-326: where the clip starts
StartTime(cursor, currentTime) ==
    IF cursor < currentTime THEN currentTime ELSE cursor

\* a variant that leaves the cursor at the clip's start
AdvanceNothing(start, duration) == start

\* line 327
Advance(start, duration) == start + duration

\* a variant of the catch block that rethrows without notifying
ConnectCatchRethrow(log) == [statusLog |-> log, pc |-> "raised"]

\* the catch block of connect(), lines 258-261: [statusLog, pc]
ConnectCatch(log) ==
    [statusLog |-> onStatusChange(log, "error"), pc |-> "done"]

\* a failure of the given kind, met after the given number of open attempts
Failed(log, kind, attempts) ==
    Append(log, [kind |-> kind, attempts |-> attempts])

\* a variant that runs the newest queued job first
NewestJob(jobs) == Len(jobs)

\* the promise jobs of one promise run in the order they were queued
NextJob(jobs) == 1

Without(jobs, j) == SubSeq(jobs, 1, j - 1) \o SubSeq(jobs, j + 1, Len(jobs))

HasOpened(log) == \E i \in DOMAIN log : log[i] = "connected"

\* the events seen after a terminal status, with one more if the log holds
\* a terminal status
After(events, log, event) ==
    IF \E i \in DOMAIN log : log[i] \in {"disconnected", "error"}
    THEN events \cup {event} ELSE events

\* connect(), lines 229-232: up to the await of getUserMedia
LcConnect ==
    /\ connectPc = "idle"
    /\ inputContext' = "running"
    /\ outputContext' = "running"
    /\ connectPc' = "awaitMedia"
    /\ UNCHANGED <<session, inputSource, processor, nextStartTime, transport,
                   statusLog, clock, scheduled>>
    /\ UNCHANGED <<failures, openAttempts>>
    /\ UNCHANGED <<captured, pending, sent>>
    /\ UNCHANGED <<disconnectCalled, afterEnd>>
    /\ OnlyLive

\* getUserMedia resolves; lines 234-256: ai.live.connect is called
LcMediaGranted ==
    /\ connectPc = "awaitMedia"
    /\ transport' = "connecting"
    /\ connectPc' = "awaitSession"
    /\ UNCHANGED <<session, inputContext, outputContext, inputSource,
                   processor, nextStartTime, statusLog, clock, scheduled>>
    /\ openAttempts' = openAttempts + 1
    /\ UNCHANGED failures
    /\ UNCHANGED <<captured, pending, sent>>
    /\ UNCHANGED <<disconnectCalled, afterEnd>>
    /\ OnlyLive

\* getUserMedia rejects; lines 258-261
LcMediaDenied ==
    /\ connectPc = "awaitMedia"
    /\ LET c == ConnectCatch(statusLog) IN
         statusLog' = c.statusLog /\ connectPc' = c.pc
    /\ UNCHANGED <<session, inputContext, outputContext, inputSource,
                   processor, nextStartTime, transport, clock, scheduled>>
    /\ failures' = Failed(failures, "denied", openAttempts)
    /\ UNCHANGED openAttempts
    /\ UNCHANGED <<captured, pending, sent>>
    /\ UNCHANGED <<disconnectCalled, afterEnd>>
    /\ OnlyLive

\* the transport opens: onopen (lines 237-240) with startAudioInput (lines
\* 264-296), then sessionPromise resolves (line 256).  Creating a source on
\* a closed context may throw, which leaves the capture nodes unset.
LcTransportOpen ==
    /\ connectPc = "awaitSession" /\ transport = "connecting"
    /\ transport' = "open"
    /\ statusLog' = onStatusChange(statusLog, "connected")
    /\ \E created \in (IF inputContext = "closed" THEN BOOLEAN ELSE {TRUE}) :
         IF inputContext # Null /\ created
         THEN inputSource' = "connected" /\ processor' = "connected"
         ELSE UNCHANGED <<inputSource, processor>>
    /\ session' = "session"
    /\ connectPc' = "done"
    /\ UNCHANGED <<inputContext, outputContext, nextStartTime, clock,
                   scheduled>>
    /\ UNCHANGED <<failures, openAttempts>>
    /\ UNCHANGED <<captured, pending, sent>>
    /\ afterEnd' = After(After(afterEnd, statusLog, "connected"), statusLog,
                         IF processor' = processor THEN "connected"
                         ELSE "capture")
    /\ UNCHANGED disconnectCalled
    /\ OnlyLive

\* the transport fails to open: sessionPromise rejects; lines 258-261
LcTransportOpenFails ==
    /\ connectPc = "awaitSession" /\ transport = "connecting"
    /\ transport' = "closed"
    /\ LET c == ConnectCatch(statusLog) IN
         statusLog' = c.statusLog /\ connectPc' = c.pc
    /\ UNCHANGED <<session, inputContext, outputContext, inputSource,
                   processor, nextStartTime, clock, scheduled>>
    /\ failures' = Failed(failures, "open", openAttempts)
    /\ UNCHANGED openAttempts
    /\ UNCHANGED <<captured, pending, sent>>
    /\ UNCHANGED <<disconnectCalled, afterEnd>>
    /\ OnlyLive

\* onmessage (lines 241-246) with playAudio (lines 298-328); samples = 0 is
\* a message without audio data
LcMessage ==
    /\ transport = "open"
    /\ Len(scheduled) < MaxClips
    /\ \E samples \in 0..MaxClip :
         IF samples > 0 /\ outputContext # Null
         THEN LET start == StartTime(nextStartTime, clock) IN
              /\ scheduled' = Append(scheduled,
                    [start |-> start, duration |-> samples, now |-> clock,
                     cursor |-> nextStartTime])
              /\ nextStartTime' = Advance(start, samples)
         ELSE UNCHANGED <<scheduled, nextStartTime>>
    /\ UNCHANGED <<session, inputContext, outputContext, inputSource,
                   processor, connectPc, transport, statusLog, clock>>
    /\ UNCHANGED <<failures, openAttempts>>
    /\ UNCHANGED <<captured, pending, sent>>
    /\ afterEnd' = IF scheduled' = scheduled THEN afterEnd
                   ELSE After(afterEnd, statusLog, "clip")
    /\ UNCHANGED disconnectCalled
    /\ OnlyLive

\* onerror, line 248
LcTransportError ==
    /\ transport = "open"
    /\ Len(statusLog) < MaxStatus
    /\ transport' = "errored"
    /\ statusLog' = onStatusChange(statusLog, "error")
    /\ UNCHANGED <<session, inputContext, outputContext, inputSource,
                   processor, nextStartTime, connectPc, clock, scheduled>>
    /\ failures' = Failed(failures, "transport", openAttempts)
    /\ UNCHANGED openAttempts
    /\ UNCHANGED <<captured, pending, sent>>
    /\ UNCHANGED <<disconnectCalled, afterEnd>>
    /\ OnlyLive

\* onclose, line 247: the peer closes, or the close that follows an error or
\* session.close()
LcTransportClose ==
    /\ transport \in {"open", "errored", "closing"}
    /\ Len(statusLog) < MaxStatus
    /\ transport' = "closed"
    /\ statusLog' = onStatusChange(statusLog, "disconnected")
    /\ UNCHANGED <<session, inputContext, outputContext, inputSource,
                   processor, nextStartTime, connectPc, clock, scheduled>>
    /\ UNCHANGED <<failures, openAttempts>>
    /\ UNCHANGED <<captured, pending, sent>>
    /\ UNCHANGED <<disconnectCalled, afterEnd>>
    /\ OnlyLive

\* disconnect(), lines 330-337
LcDisconnect ==
    /\ connectPc # "idle"
    \* the promise jobs queued by earlier events have run before a caller's
    \* event handler can call disconnect()
    /\ pending = << >>
    /\ Len(statusLog) < MaxStatus
    /\ transport' = SessionClose(session, transport)
    /\ inputSource' = Disconnected(inputSource)
    /\ processor' = Disconnected(processor)
    /\ inputContext' = Closed(inputContext)
    /\ outputContext' = Closed(outputContext)
    /\ statusLog' = onStatusChange(statusLog, "disconnected")
    /\ UNCHANGED <<session, nextStartTime, connectPc, clock, scheduled>>
    /\ UNCHANGED <<failures, openAttempts>>
    /\ UNCHANGED <<captured, pending, sent>>
    /\ disconnectCalled' = <<Len(sent)>>
    /\ UNCHANGED afterEnd
    /\ OnlyLive

\* the playback clock of a running output context advances
LcTick ==
    /\ outputContext = "running"
    /\ clock < MaxClock
    /\ clock' = clock + 1
    /\ UNCHANGED <<session, inputContext, outputContext, inputSource,
                   processor, nextStartTime, connectPc, transport, statusLog,
                   scheduled>>
    /\ UNCHANGED <<failures, openAttempts>>
    /\ UNCHANGED <<captured, pending, sent>>
    /\ UNCHANGED <<disconnectCalled, afterEnd>>
    /\ OnlyLive

\* onaudioprocess, lines 269-291, up to sessionPromise.then: the frame is
\* numbered by its capture position
LcAudioProcess ==
    /\ processor = "connected" /\ inputSource = "connected"
    /\ inputContext = "running"
    /\ captured < MaxFrames
    /\ captured' = captured + 1
    /\ pending' = Append(pending, captured + 1)
    /\ UNCHANGED <<session, inputContext, outputContext, inputSource,
                   processor, nextStartTime, connectPc, transport, statusLog,
                   clock, scheduled, failures, openAttempts, sent>>
    /\ UNCHANGED <<disconnectCalled, afterEnd>>
    /\ OnlyLive

\* the job queued by sessionPromise.then runs: session.sendRealtimeInput,
\* lines 284-291
LcSendFrame ==
    /\ session # Null
    /\ pending # << >>
    /\ LET j == NextJob(pending) IN
         /\ sent' = Append(sent, [frame |-> pending[j],
                                  opened |-> HasOpened(statusLog)])
         /\ pending' = Without(pending, j)
    /\ UNCHANGED <<session, inputContext, outputContext, inputSource,
                   processor, nextStartTime, connectPc, transport, statusLog,
                   clock, scheduled, failures, openAttempts, captured>>
    /\ UNCHANGED <<disconnectCalled, afterEnd>>
    /\ OnlyLive

\* ------------------------------------------- LiveClient sample conversions
\* A sample is a fraction [num, den].  Captured samples are the fractions
\* k / Grid of [-1, 1]; with Grid a power of two each is a float32 value
\* and its product with 0x7FFF is exact.  A frame holds two neighbouring
\* samples: an order kept between all neighbours is kept over the grid.
Sample(k) == [num |-> k, den |-> Grid]
InputFrames == {<<Sample(k), Sample(k + 1)>> : k \in (-Grid)..(Grid - 1)}

\* truncation toward zero of n / d, d > 0
Trunc(n, d) == IF n >= 0 THEN n \div d ELSE -((-n) \div d)

\* a variant that stores into an 8-bit array
ToInt8(t) == ((t + 128) % 256) - 128

\* the store into an Int16Array element: modulo 2^16 into -32768..32767
ToInt16(t) == ((t + 32768) % 65536) - 32768

\* line 273: pcm16[i] = inputData[i] * 0x7FFF
Encode(x) == ToInt16(Trunc(x.num * 32767, x.den))

\* line 314: channelData[i] = int16[i] / 32768.0
Decode(q) == [num |-> q, den |-> 32768]

CodecIdle ==
    /\ cdPc = "idle" /\ inputData = << >> /\ pcm16 = << >>
    /\ channelData = << >>

CodecInit ==
    /\ cdPc = "start" /\ inputData \in InputFrames /\ pcm16 = << >>
    /\ channelData = << >>

OnlyCodec ==
    UNCHANGED <<streamVars, liveVars, videoVars, imageVars, appVars,
                errVars, speechVars,
                toggleVars,
                historyVars>>

\* the loop of onaudioprocess, lines 271-274
CdEncode ==
    /\ cdPc = "start"
    /\ pcm16' = [i \in 1..Len(inputData) |-> Encode(inputData[i])]
    /\ cdPc' = "encoded"
    /\ UNCHANGED <<inputData, channelData>>
    /\ OnlyCodec

\* the loop of playAudio, lines 313-315, on the same integers
CdDecode ==
    /\ cdPc = "encoded"
    /\ channelData' = [i \in 1..Len(pcm16) |-> Decode(pcm16[i])]
    /\ cdPc' = "decoded"
    /\ UNCHANGED <<inputData, pcm16>>
    /\ OnlyCodec

\* ================================================= generation config, media
\* An omitted option is "" (falsy); v || d
Or(v, d) == IF v = "" THEN d ELSE v

AspectRatios == {"", "9:16", "16:9"}
ImageSizes   == {"", "2K"}
Resolutions  == {"", "1080p"}
Prompts      == {<<"a red cube">>, << >>}

\* An optional attachment is << >> or <<attachment>>; attachments[0]
Attachments == {[mimeType |-> m, data |-> d] : m \in MimeTypes, d \in {"QUJD"}}
OptAttachment == {<< >>} \cup {<<a>> : a \in Attachments}

\* ========================================================== generateVideo
VideoUris == {<<"https://videos/1?alt=media">>}
Operations == {[done |-> FALSE, uri |-> << >>], [done |-> TRUE, uri |-> << >>]}
              \cup {[done |-> TRUE, uri |-> u] : u \in VideoUris}

\* payload and operation are records once assigned; before that they are
\* the record [unset |-> TRUE]
VideoIdle ==
    /\ gvPc = "idle" /\ gvInput = Null
    /\ gvPayload = [unset |-> TRUE] /\ operation = [unset |-> TRUE]
    /\ gvInitialDone = FALSE /\ pollCalls = 0 /\ pollLog = << >>
    /\ waits = << >> /\ gvFailed = FALSE
    /\ gvResult = << >>

VideoInit ==
    /\ gvPc = "start"
    /\ gvInput \in [prompt : Prompts, aspectRatio : AspectRatios,
                    resolution : Resolutions, attachment : OptAttachment]
    /\ gvPayload = [unset |-> TRUE] /\ operation = [unset |-> TRUE]
    /\ gvInitialDone = FALSE /\ pollCalls = 0 /\ pollLog = << >>
    /\ waits = << >> /\ gvFailed = FALSE
    /\ gvResult = << >>

OnlyVideo ==
    UNCHANGED <<streamVars, liveVars, imageVars, appVars,
      errVars, speechVars, codecVars,
                toggleVars,
                historyVars>>

\* a variant that passes the aspect ratio through
VideoPayloadAsGiven(prompt, aspectRatio, attachment) ==
    [model  |-> VIDEO_GEN_MODEL,
     prompt |-> prompt,
     config |-> [numberOfVideos |-> 1, resolution |-> "720p",
                 aspectRatio |-> aspectRatio],
     image  |-> IF attachment = << >> THEN << >>
                ELSE <<[imageBytes |-> attachment[1].data,
                        mimeType |-> attachment[1].mimeType]>>]

\* lines 377-384; image is << >> when no attachment is given
VideoPayload(prompt, aspectRatio, attachment) ==
    [model  |-> VIDEO_GEN_MODEL,
     prompt |-> prompt,
     config |-> [numberOfVideos |-> 1, resolution |-> "720p",
                 aspectRatio |-> Or(aspectRatio, "16:9")],
     image  |-> IF attachment = << >> THEN << >>
                ELSE <<[imageBytes |-> attachment[1].data,
                        mimeType |-> attachment[1].mimeType]>>]

\* a variant that polls until a URI shows
KeepsPollingUntilUri(op) == op.uri = << >>

\* line 386: the loop condition
KeepsPolling(op) == ~op.done

\* a variant that backs off
PollWaitBackoff(polls) == 5000 * (polls + 1)

\* line 387: the wait before each poll, in ms, after the given number of
\* polls
PollWait(polls) == 5000

\* line 392
VideoUrl(uri) == uri \o <<"&key=", API_KEY>>

\* lines 377-385: the payload is built and generateVideos is called
GvStart ==
    /\ gvPc = "start"
    /\ gvPc' = "awaitInitial"
    /\ gvPayload' = VideoPayload(gvInput.prompt, gvInput.aspectRatio,
                                 gvInput.attachment)
    /\ UNCHANGED <<gvInput, operation, gvInitialDone, pollCalls, pollLog,
                   gvResult>>
    /\ UNCHANGED <<waits, gvFailed>>
    /\ OnlyVideo

\* generateVideos resolves; line 385
GvInitial ==
    /\ gvPc = "awaitInitial"
    /\ \E op \in Operations :
         /\ operation' = op
         /\ gvInitialDone' = op.done
    /\ gvPc' = "loop"
    /\ UNCHANGED <<gvInput, gvPayload, pollCalls, pollLog, gvResult>>
    /\ UNCHANGED <<waits, gvFailed>>
    /\ OnlyVideo

\* lines 386-388: the wait, then getVideosOperation is called
GvPoll ==
    /\ gvPc = "loop"
    /\ KeepsPolling(operation)
    /\ pollCalls < MaxPolls
    /\ pollCalls' = pollCalls + 1
    /\ gvPc' = "awaitPoll"
    /\ UNCHANGED <<gvInput, gvPayload, operation, gvInitialDone, pollLog,
                   gvResult>>
    /\ waits' = Append(waits, PollWait(pollCalls))
    /\ UNCHANGED gvFailed
    /\ OnlyVideo

\* getVideosOperation resolves; line 388
GvPollAnswer ==
    /\ gvPc = "awaitPoll"
    /\ \E op \in Operations :
         /\ operation' = op
         /\ pollLog' = Append(pollLog, op)
    /\ gvPc' = "loop"
    /\ UNCHANGED <<gvInput, gvPayload, gvInitialDone, pollCalls, gvResult>>
    /\ UNCHANGED <<waits, gvFailed>>
    /\ OnlyVideo

\* lines 390-392, and the catch of line 393 for the missing URI
GvFinish ==
    /\ gvPc = "loop"
    /\ ~KeepsPolling(operation)
    /\ IF operation.uri = << >>
       THEN /\ gvPc' = "thrown"
            /\ gvResult' = mapError(<<"Video generation failed.">>)
       ELSE /\ gvPc' = "returned"
            /\ gvResult' = VideoUrl(operation.uri)
    /\ UNCHANGED <<gvInput, gvPayload, operation, gvInitialDone, pollCalls,
                   pollLog>>
    /\ UNCHANGED <<waits, gvFailed>>
    /\ OnlyVideo

\* generateVideos or getVideosOperation rejects; line 393
GvFails ==
    /\ gvPc \in {"awaitInitial", "awaitPoll"}
    /\ \E message \in RawMessages :
         gvResult' = mapError(message)
    /\ gvPc' = "thrown"
    /\ UNCHANGED <<gvInput, gvPayload, operation, gvInitialDone, pollCalls,
                   pollLog>>
    /\ gvFailed' = TRUE
    /\ UNCHANGED waits
    /\ OnlyVideo

\* ========================================================== generateImage
TextPart(text)           == [text |-> text]
InlinePart(mimeType, data) == [inlineData |-> [mimeType |-> mimeType, data |-> data]]

ResponseParts == {TextPart(<<"Here you go">>),
                  InlinePart([type |-> "image", subtype |-> "png"], "iVBOR"),
                  InlinePart([type |-> "image", subtype |-> "jpeg"], "9j4AA")}
\* response.candidates?.[0]?.content?.parts; << >> also stands for none
Responses == SeqsUpTo(ResponseParts, MaxParts)

ImageIdle ==
    /\ giPc = "idle" /\ giInput = Null /\ giCalls = << >>
    /\ giResponse = << >> /\ giAnswered = FALSE /\ giResult = << >>

ImageInit ==
    /\ giPc = "start"
    /\ giInput \in [prompt : Prompts,
                    config : [aspectRatio : AspectRatios, imageSize : ImageSizes],
                    attachment : OptAttachment]
    /\ giCalls = << >> /\ giResponse = << >> /\ giAnswered = FALSE
    /\ giResult = << >>

OnlyImage ==
    UNCHANGED <<streamVars, liveVars, videoVars, appVars,
      errVars, speechVars, codecVars,
                toggleVars,
                historyVars>>

\* a variant that ignores the attachment
ImageRequestNoEdit(prompt, config, attachment) ==
    [model |-> IMAGE_GEN_MODEL,
     parts |-> <<[text |-> prompt]>>,
     imageConfig |-> [aspectRatio |-> Or(config.aspectRatio, "1:1"),
                      imageSize   |-> Or(config.imageSize, "1K")]]

\* lines 344-367: the generateContent request
ImageRequest(prompt, config, attachment) ==
    IF attachment # << >>
    THEN [model |-> IMAGE_EDIT_MODEL,
          parts |-> <<TextPart(prompt),
                      InlinePart(attachment[1].mimeType, attachment[1].data)>>]
    ELSE [model |-> IMAGE_GEN_MODEL,
          parts |-> <<TextPart(prompt)>>,
          imageConfig |-> [aspectRatio |-> Or(config.aspectRatio, "1:1"),
                           imageSize   |-> Or(config.imageSize, "1K")]]

HasInlineData(part) == "inlineData" \in DOMAIN part

\* parts?.find(p => p.inlineData): << >> when there is none
FindInline(parts) ==
    IF \E i \in 1..Len(parts) : HasInlineData(parts[i])
    THEN LET i == CHOOSE i \in 1..Len(parts) :
                    /\ HasInlineData(parts[i])
                    /\ \A j \in 1..(i - 1) : ~HasInlineData(parts[j])
         IN <<parts[i]>>
    ELSE << >>

\* `data:${mimeType};base64,${data}`
DataUrl(inlineData) ==
    <<"data:", inlineData.mimeType.type, "/", inlineData.mimeType.subtype,
      ";base64,", inlineData.data>>

\* the message of the Error thrown when no image part is found
NoImage(attachment) ==
    IF attachment # << >> THEN <<"No image returned from edit.">>
    ELSE <<"No image generated.">>

\* lines 344-345 / 358: generateContent is called
GiStart ==
    /\ giPc = "start"
    /\ giCalls' = Append(giCalls, ImageRequest(giInput.prompt, giInput.config,
                                               giInput.attachment))
    /\ giPc' = "awaitResponse"
    /\ UNCHANGED <<giInput, giResponse, giAnswered, giResult>>
    /\ OnlyImage

\* generateContent resolves; lines 354-356 / 368-370, and the catch of 372
GiAnswer ==
    /\ giPc = "awaitResponse"
    /\ giAnswered' = TRUE
    /\ \E parts \in Responses :
         /\ giResponse' = parts
         /\ LET part == FindInline(parts) IN
            IF part # << >>
            THEN /\ giPc' = "returned"
                 /\ giResult' = DataUrl(part[1].inlineData)
            ELSE /\ giPc' = "thrown"
                 /\ giResult' = mapError(NoImage(giInput.attachment))
    /\ UNCHANGED <<giInput, giCalls>>
    /\ OnlyImage

\* generateContent rejects; line 372
GiFails ==
    /\ giPc = "awaitResponse"
    /\ \E message \in RawMessages :
         giResult' = mapError(message)
    /\ giPc' = "thrown"
    /\ UNCHANGED <<giInput, giCalls, giResponse, giAnswered>>
    /\ OnlyImage

\* ================================================ generateSpeech and WAV
\* A byte is 0..255.  A base64 text is a sequence of sextets 0..63, with Pad
\* for '='.
ByteValues == {0, 127, 255}
PcmPayloads == SeqsUpTo(ByteValues, MaxPcmBytes)
Pad == 64

\* the backend's encoding of the PCM bytes (inlineData.data)
RECURSIVE B64Encode(_)
B64Encode(bytes) ==
    IF bytes = << >> THEN << >>
    ELSE LET b1 == bytes[1]
             b2 == IF Len(bytes) >= 2 THEN bytes[2] ELSE 0
             b3 == IF Len(bytes) >= 3 THEN bytes[3] ELSE 0
             s1 == b1 \div 4
             s2 == (b1 % 4) * 16 + b2 \div 16
             s3 == (b2 % 16) * 4 + b3 \div 64
             s4 == b3 % 64
         IN IF Len(bytes) = 1 THEN <<s1, s2, Pad, Pad>>
            ELSE IF Len(bytes) = 2 THEN <<s1, s2, s3, Pad>>
            ELSE <<s1, s2, s3, s4>> \o B64Encode(SubSeq(bytes, 4, Len(bytes)))

\* atob with the charCodeAt loop, lines 169-174: the decoded bytes
RECURSIVE atob(_)
atob(base64) ==
    IF base64 = << >> THEN << >>
    ELSE LET s1 == base64[1]
             s2 == base64[2]
             s3 == base64[3]
             s4 == base64[4]
             b1 == s1 * 4 + s2 \div 16
             b2 == (s2 % 16) * 16 + s3 \div 4
             b3 == (s3 % 4) * 64 + s4
         IN IF s3 = Pad THEN <<b1>>
            ELSE IF s4 = Pad THEN <<b1, b2>>
            ELSE <<b1, b2, b3>> \o atob(SubSeq(base64, 5, Len(base64)))

\* new Int16Array(bytes.buffer): << >> when the constructor throws (odd
\* byte length), else <<the bytes viewed>>
Int16Array(bytes) == IF Len(bytes) % 2 = 0 THEN <<bytes>> ELSE << >>
RangeErrorMessage ==
    <<"byte length of Int16Array should be a multiple of 2">>

\* little-endian writes into the 44-byte header; offsets count from 0.
\* The values written here are below 2^31, so the writes' reduction
\* modulo 2^32 and 2^16 leaves them unchanged.
setBytes(view, offset, bs) ==
    [i \in 1..Len(view) |->
        IF i - 1 >= offset /\ i - 1 < offset + Len(bs) THEN bs[i - offset]
        ELSE view[i]]
setUint16(view, offset, value) ==
    setBytes(view, offset, <<value % 256, (value \div 256) % 256>>)
setUint32(view, offset, value) ==
    setBytes(view, offset,
             <<value % 256, (value \div 256) % 256,
               (value \div 65536) % 256, (value \div 16777216) % 256>>)
\* writeString, lines 204-208, on the char codes of the string
writeString(view, offset, codes) == setBytes(view, offset, codes)

RIFF == <<82, 73, 70, 70>>
WAVE == <<87, 65, 86, 69>>
FMT  == <<102, 109, 116, 32>>
DATA == <<100, 97, 116, 97>>

numChannels == 1

\* a variant that counts the whole header in the RIFF chunk size
RiffSizeWithHeader(byteLength) == 44 + byteLength

\* line 184
RiffSize(byteLength) == 36 + byteLength

\* a variant for 8-bit samples
ByteRate8(sampleRate) == sampleRate * numChannels

\* line 178
ByteRate(sampleRate) == sampleRate * numChannels * 2

\* line 179
BlockAlign == numChannels * 2

\* lines 180-198
WavHeader(byteLength, sampleRate) ==
    LET v0  == [i \in 1..44 |-> 0]
        v1  == writeString(v0, 0, RIFF)
        v2  == setUint32(v1, 4, RiffSize(byteLength))
        v3  == writeString(v2, 8, WAVE)
        v4  == writeString(v3, 12, FMT)
        v5  == setUint32(v4, 16, 16)
        v6  == setUint16(v5, 20, 1)
        v7  == setUint16(v6, 22, numChannels)
        v8  == setUint32(v7, 24, sampleRate)
        v9  == setUint32(v8, 28, ByteRate(sampleRate))
        v10 == setUint16(v9, 32, BlockAlign)
        v11 == setUint16(v10, 34, 16)
        v12 == writeString(v11, 36, DATA)
    IN setUint32(v12, 40, byteLength)

\* a variant that keeps the header only
BlobOfHeader(view, pcmData) == view

\* new Blob([view, pcmData]), line 200: the bytes of the parts in order
Blob(view, pcmData) == view \o pcmData

\* base64PCMToWav, lines 168-202: << >> when it throws, else <<the bytes
\* of the Blob the returned URL refers to>>
base64PCMToWav(base64Pcm, sampleRate) ==
    LET bytes   == atob(base64Pcm)
        pcmData == Int16Array(bytes)
    IN IF pcmData = << >> THEN << >>
       ELSE <<Blob(WavHeader(Len(pcmData[1]), sampleRate), pcmData[1])>>

\* a variant that accepts any answer
NoAudioNever(base64Audio) == FALSE

\* !base64Audio, line 154: undefined or the empty string
NoAudio(base64Audio) == base64Audio = << >>

SpeechTexts == {<<"hello">>}

SpeechIdle ==
    /\ gsPc = "idle" /\ gsText = << >> /\ gsCalls = << >>
    /\ gsPcm = << >> /\ gsAnswered = FALSE /\ gsResult = << >>

SpeechInit ==
    /\ gsPc = "start" /\ gsText \in SpeechTexts /\ gsCalls = << >>
    /\ gsPcm = << >> /\ gsAnswered = FALSE /\ gsResult = << >>

OnlySpeech ==
    UNCHANGED <<streamVars, liveVars, videoVars, imageVars, appVars,
                errVars, codecVars,
                toggleVars,
                historyVars>>

\* lines 140-151
SpeechRequest(text) ==
    [model |-> TTS_MODEL,
     parts |-> <<TextPart(text)>>,
     voiceName |-> "Kore"]

\* lines 140-151: generateContent is called
GsStart ==
    /\ gsPc = "start"
    /\ gsCalls' = Append(gsCalls, SpeechRequest(gsText))
    /\ gsPc' = "awaitResponse"
    /\ UNCHANGED <<gsText, gsPcm, gsAnswered, gsResult>>
    /\ OnlySpeech

\* generateContent resolves; lines 153-157 and the catch of 159-162.  The
\* answer carries no audio part (<< >>) or the base64 text of a payload;
\* the base64 text of no bytes is the empty string.
GsAnswer ==
    /\ gsPc = "awaitResponse"
    /\ gsAnswered' = TRUE
    /\ \E answer \in {<< >>} \cup {<<pcm>> : pcm \in PcmPayloads} :
         /\ gsPcm' = answer
         /\ LET base64Audio ==
                    IF answer = << >> THEN << >> ELSE B64Encode(answer[1])
            IN IF NoAudio(base64Audio)
               THEN /\ gsPc' = "thrown"
                    /\ gsResult' = mapError(<<"No audio generated">>)
               ELSE LET wav == base64PCMToWav(base64Audio, 24000) IN
                    IF wav = << >>
                    THEN /\ gsPc' = "thrown"
                         /\ gsResult' = mapError(RangeErrorMessage)
                    ELSE /\ gsPc' = "returned"
                         /\ gsResult' = wav[1]
    /\ UNCHANGED <<gsText, gsCalls>>
    /\ OnlySpeech

\* generateContent rejects; lines 159-162
GsFails ==
    /\ gsPc = "awaitResponse"
    /\ \E message \in RawMessages :
         gsResult' = mapError(message)
    /\ gsPc' = "thrown"
    /\ UNCHANGED <<gsText, gsCalls, gsPcm, gsAnswered>>
    /\ OnlySpeech

\* ==================================================================== App
\* A request is one handleSendMessage call; its AbortController carries the
\* request's number, and abortControllerRef = 0 is null.  A request records
\* its model message (content, isStreaming, isError, media) and, for the
\* properties, the content when its controller was aborted (atStop) and the
\* message of the Error its service call threw (thrown).
AppModes == StreamModes \cup {"image", "video", "tts"}
AppTexts == {<<"hello">>}
AppAttachmentLists == {<< >>} \cup {<<m>> : m \in MimeTypes}
AppFragments == {<<"a">>}
AppFailures == {<< >>, <<"4", "2", "9">>}
Requests == 1..MaxReq

NoRequest ==
    [st |-> "none", mode |-> "chat", text |-> << >>, content |-> << >>,
     isStreaming |-> FALSE, isError |-> FALSE, media |-> "none",
     atStop |-> << >>, thrown |-> << >>]

AppIdle ==
    /\ isStreaming = FALSE /\ abortControllerRef = 0 /\ aborted = {}
    /\ requests = << >> /\ calls = << >> /\ lastChat = << >>
    /\ titleCalls = 0

AppInit ==
    /\ isStreaming = FALSE /\ abortControllerRef = 0 /\ aborted = {}
    /\ requests = [r \in Requests |-> NoRequest]
    /\ calls = << >> /\ lastChat = << >>
    /\ titleCalls = 0

OnlyApp ==
    UNCHANGED <<streamVars, liveVars, videoVars, imageVars,
      errVars, speechVars, codecVars,
                toggleVars,
                historyVars>>

\* a variant without the tts branch
DispatchNoSpeech(mode) ==
    IF mode = "image" THEN "generateImage"
    ELSE IF mode = "video" THEN "generateVideo"
    ELSE "streamResponse"

\* lines 127-163: the service function a mode is sent to
Dispatch(mode) ==
    IF mode = "image" THEN "generateImage"
    ELSE IF mode = "video" THEN "generateVideo"
    ELSE IF mode = "tts" THEN "generateSpeech"
    ELSE "streamResponse"

\* lines 128, 133, 138: the content shown while a single-shot call runs
Placeholder(mode) ==
    IF mode = "image" THEN <<"Generating image...">>
    ELSE IF mode = "video" THEN <<"Generating video... this may take a moment.">>
    ELSE IF mode = "tts" THEN <<"Generating speech...">>
    ELSE << >>

\* the call made for a request
ServiceCall(r, mode) == [request |-> r, fn |-> Dispatch(mode), mode |-> mode]

\* what streamResponse hands to chats.create (lines 68-110 of the service),
\* with the mode and whether an attachment was audio
ChatCreated(mode, attachments) ==
    <<[mode |-> mode, audio |-> HasAudio(attachments)]
      @@ ChatRequest(mode, attachments)>>

\* a variant that leaves the message's streaming flag
FinallyKeepsFlag(req) == [req EXCEPT !.st = "done"]

\* a variant of the catch block that marks nothing
AppCatchSilent(req, refAborted, message) == req

\* the catch block, lines 164-170; refAborted is
\* abortControllerRef.current?.signal.aborted
AppCatch(req, refAborted, message) ==
    IF ~refAborted
    THEN [req EXCEPT !.content = message, !.isError = TRUE]
    ELSE req

\* a variant that delivers whatever the signal
DeliversAlways(r, abortedSet) == TRUE

\* line 117 of the service: a fragment is delivered only while the
\* request's signal is not aborted
Delivers(r, abortedSet) == r \notin abortedSet

\* the finally block, lines 171-175
Finally(req) == [req EXCEPT !.st = "done", !.isStreaming = FALSE]

\* handleSendMessage up to its first await, lines 99-162
HandleSendMessage ==
    /\ ~isStreaming
    /\ \E r \in Requests, mode \in AppModes, text \in AppTexts,
          attachments \in AppAttachmentLists :
         /\ requests[r].st = "none"
         /\ \A q \in 1..(r - 1) : requests[q].st # "none"
         /\ requests' = [requests EXCEPT ![r] =
                [st |-> "inflight", mode |-> mode, text |-> text,
                 content |-> Placeholder(mode), isStreaming |-> TRUE,
                 isError |-> FALSE, media |-> "none",
                 atStop |-> << >>, thrown |-> << >>]]
         /\ calls' = Append(calls, ServiceCall(r, mode))
         /\ lastChat' = IF Dispatch(mode) = "streamResponse"
                        THEN ChatCreated(mode, attachments) ELSE lastChat
         /\ abortControllerRef' = r
         \* line 124: the session had no message yet
         /\ titleCalls' = IF r = 1 THEN titleCalls + 1 ELSE titleCalls
    /\ isStreaming' = TRUE
    /\ UNCHANGED aborted
    /\ OnlyApp

\* the onChunk callback, lines 150-160; streamResponse calls it only while
\* the request's signal is not aborted
AppChunk ==
    /\ \E r \in Requests, text \in AppFragments :
         /\ requests[r].st = "inflight"
         /\ Dispatch(requests[r].mode) = "streamResponse"
         /\ Delivers(r, aborted)
         /\ Len(requests[r].content) < MaxChunks
         /\ requests' = [requests EXCEPT ![r].content = @ \o text]
    /\ UNCHANGED <<isStreaming, abortControllerRef, aborted, calls, lastChat,
                   titleCalls>>
    /\ OnlyApp

\* the awaited call returns: lines 130, 135, 140, then the finally block
AppReturns ==
    /\ \E r \in Requests :
         /\ requests[r].st = "inflight"
         /\ LET req == requests[r]
                fn  == Dispatch(req.mode)
                upd == IF fn = "generateImage"
                       THEN [req EXCEPT !.content = << >>, !.media = "generatedImage"]
                       ELSE IF fn = "generateVideo"
                       THEN [req EXCEPT !.content = << >>, !.media = "generatedVideo"]
                       ELSE IF fn = "generateSpeech"
                       THEN [req EXCEPT !.content = req.text, !.media = "audioData"]
                       ELSE req
            IN requests' = [requests EXCEPT ![r] = Finally(upd)]
    /\ isStreaming' = FALSE
    /\ abortControllerRef' = 0
    /\ UNCHANGED <<aborted, calls, lastChat, titleCalls>>
    /\ OnlyApp

\* the awaited call throws: the catch of lines 164-170, then the finally
\* block.  streamResponse throws only while its signal is not aborted.
AppThrows ==
    /\ \E r \in Requests, message \in AppFailures :
         /\ requests[r].st = "inflight"
         /\ Dispatch(requests[r].mode) = "streamResponse" => r \notin aborted
         /\ LET req == [requests[r] EXCEPT !.thrown = <<mapError(message)>>]
                refAborted ==
                    abortControllerRef # 0 /\ abortControllerRef \in aborted
                upd == AppCatch(req, refAborted, mapError(message))
            IN requests' = [requests EXCEPT ![r] = Finally(upd)]
    /\ isStreaming' = FALSE
    /\ abortControllerRef' = 0
    /\ UNCHANGED <<aborted, calls, lastChat, titleCalls>>
    /\ OnlyApp

\* handleStopGeneration, lines 178-184; the stop button shows while
\* isStreaming
HandleStopGeneration ==
    /\ isStreaming
    /\ IF abortControllerRef # 0
       THEN /\ aborted' = aborted \cup {abortControllerRef}
            /\ requests' = [requests EXCEPT ![abortControllerRef].atStop =
                                <<requests[abortControllerRef].content>>]
            /\ abortControllerRef' = 0
       ELSE UNCHANGED <<aborted, abortControllerRef, requests>>
    /\ isStreaming' = FALSE
    /\ UNCHANGED <<calls, lastChat, titleCalls>>
    /\ OnlyApp

\* ===================================== App: the history of a stream call
\* A message is [id, role, content, isError, isStreaming, attachments]; a
\* message without attachments has the empty list.  handleSendMessage reads
\* currentMessages of the render it was created in, which holds every
\* message added or updated before the click.
HistoryIdle ==
    /\ currentMessages = << >> /\ sends = << >>
    /\ hsStreaming = FALSE /\ hsRef = 0

HistoryInit == HistoryIdle

OnlyHistory ==
    UNCHANGED <<streamVars, liveVars, videoVars, imageVars, appVars,
                errVars, speechVars, codecVars, toggleVars>>

HsModes == {"chat", "image"}
HsTexts == {<< >>, <<"hello">>}
HsAttachmentLists == {<< >>, <<[type |-> "image", subtype |-> "png"]>>}

\* service line 29
NotErrored(msg) == ~msg.isError

\* service line 30: an empty string is falsy
HasContentOrAttachments(msg) ==
    msg.content # << >> \/ Len(msg.attachments) > 0

\* service lines 31-51
ToContent(msg) ==
    [role |-> msg.role,
     parts |-> (IF msg.content # << >> THEN <<[text |-> msg.content]>>
                ELSE << >>)
               \o [i \in DOMAIN msg.attachments |->
                      [inlineData |-> msg.attachments[i]]]]

\* a variant without the first filter
mapMessagesToHistoryWithErrors(messages) ==
    LET kept == SelectSeq(messages, HasContentOrAttachments)
    IN [i \in DOMAIN kept |-> ToContent(kept[i])]

\* service lines 27-52
mapMessagesToHistory(messages) ==
    LET sound == SelectSeq(messages, NotErrored)
        kept  == SelectSeq(sound, HasContentOrAttachments)
    IN [i \in DOMAIN kept |-> ToContent(kept[i])]

Streams(mode) == Dispatch(mode) = "streamResponse"

\* handleSendMessage up to its first await, lines 99-162; InputArea sends
\* only a text or an attachment (its line 162)
HsSend ==
    /\ ~hsStreaming
    /\ Len(sends) < MaxSends
    /\ \E mode \in HsModes, text \in HsTexts,
          attachments \in HsAttachmentLists :
         /\ text # << >> \/ attachments # << >>
         /\ LET n == Len(currentMessages)
                userMessage ==
                    [id |-> n + 1, role |-> "user", content |-> text,
                     isError |-> FALSE, isStreaming |-> FALSE,
                     attachments |-> attachments]
                assistantMessage ==
                    [id |-> n + 2, role |-> "model",
                     content |-> Placeholder(mode), isError |-> FALSE,
                     isStreaming |-> TRUE, attachments |-> << >>]
            IN /\ currentMessages' =
                     currentMessages \o <<userMessage, assistantMessage>>
               /\ sends' = Append(sends,
                     [mode |-> mode, user |-> n + 1, model |-> n + 2,
                      aborted |-> FALSE,
                      input |-> IF Streams(mode) THEN <<currentMessages>>
                                ELSE << >>,
                      history |-> IF Streams(mode)
                                  THEN mapMessagesToHistory(currentMessages)
                                  ELSE << >>])
    /\ hsStreaming' = TRUE
    /\ hsRef' = Len(sends) + 1
    /\ OnlyHistory

\* the onChunk callback, lines 150-159
HsChunk ==
    /\ \E s \in DOMAIN sends :
         LET m == sends[s].model IN
         /\ Streams(sends[s].mode)
         /\ currentMessages[m].isStreaming
         /\ ~sends[s].aborted
         /\ Len(currentMessages[m].content) < MaxChunks
         /\ currentMessages' =
               [currentMessages EXCEPT ![m].content = @ \o <<"a">>]
    /\ UNCHANGED <<sends, hsStreaming, hsRef>>
    /\ OnlyHistory

\* the call of a send returns; lines 130, 135, 162 and the finally block
HsReturns ==
    /\ \E s \in DOMAIN sends :
         LET m == sends[s].model IN
         /\ currentMessages[m].isStreaming
         /\ currentMessages' = [currentMessages EXCEPT
               ![m].content = IF Streams(sends[s].mode) THEN @ ELSE << >>,
               ![m].isStreaming = FALSE]
    /\ hsStreaming' = FALSE
    /\ hsRef' = 0
    /\ UNCHANGED sends
    /\ OnlyHistory

\* the call of a send throws; the catch and the finally block.  A stream
\* whose signal is aborted returns instead.
HsThrows ==
    /\ \E s \in DOMAIN sends :
         LET m == sends[s].model IN
         /\ currentMessages[m].isStreaming
         /\ Streams(sends[s].mode) => ~sends[s].aborted
         /\ currentMessages' = [currentMessages EXCEPT ![m] =
               [AppCatch(@, hsRef # 0 /\ sends[hsRef].aborted,
                         <<"An unexpected error occurred.">>)
                EXCEPT !.isStreaming = FALSE]]
    /\ hsStreaming' = FALSE
    /\ hsRef' = 0
    /\ UNCHANGED sends
    /\ OnlyHistory

\* handleStopGeneration, lines 178-184
HsStop ==
    /\ hsStreaming
    /\ IF hsRef # 0
       THEN sends' = [sends EXCEPT ![hsRef].aborted = TRUE]
       ELSE UNCHANGED sends
    /\ hsRef' = 0
    /\ hsStreaming' = FALSE
    /\ UNCHANGED currentMessages
    /\ OnlyHistory

\* ================================================== App: the live toggle
\* Each click on the live button calls handleLiveToggle(!isLiveActive)
\* (InputArea line 314).  A client is the record of its fields, the
\* position of its connect() and the state of its transport.
ToggleIdle ==
    /\ clients = << >> /\ liveClientRef = 0 /\ isLiveActive = FALSE

ToggleInit == ToggleIdle

OnlyToggle ==
    UNCHANGED <<streamVars, liveVars, videoVars, imageVars, appVars,
                errVars, speechVars, codecVars,
                historyVars>>

\* new LiveClient(...) followed by connect() up to the await of
\* getUserMedia; service lines 215-232
NewClient ==
    [session |-> Null, inputContext |-> "running",
     outputContext |-> "running", inputSource |-> Null, processor |-> Null,
     connectPc |-> "awaitMedia", transport |-> "none"]

\* the status callback handleLiveToggle gives each client, lines 78-83;
\* app is [isLiveActive, liveClientRef]
LiveStatus(app, status) ==
    IF status \in {"disconnected", "error"}
    THEN [isLiveActive |-> FALSE, liveClientRef |-> 0]
    ELSE app

\* disconnect() up to its notification, service lines 331-335
ClientDisconnect(c) ==
    [c EXCEPT !.transport = SessionClose(c.session, c.transport),
              !.inputSource = Disconnected(c.inputSource),
              !.processor = Disconnected(c.processor),
              !.inputContext = Closed(c.inputContext),
              !.outputContext = Closed(c.outputContext)]

\* a client calls onStatusChange(status)
Notified(status) ==
    LET app == LiveStatus([isLiveActive |-> isLiveActive,
                           liveClientRef |-> liveClientRef], status)
    IN /\ isLiveActive' = app.isLiveActive
       /\ liveClientRef' = app.liveClientRef

\* handleLiveToggle(true), lines 76-85
HandleLiveToggleOn ==
    /\ ~isLiveActive
    /\ Len(clients) < MaxLiveClients
    /\ isLiveActive' = TRUE
    /\ clients' = Append(clients, NewClient)
    /\ liveClientRef' = Len(clients) + 1
    /\ OnlyToggle

\* handleLiveToggle(false), lines 86-90; disconnect() ends by notifying
\* 'disconnected'
HandleLiveToggleOff ==
    /\ isLiveActive
    /\ IF liveClientRef # 0
       THEN clients' = [clients EXCEPT ![liveClientRef] = ClientDisconnect(@)]
       ELSE UNCHANGED clients
    /\ liveClientRef' = 0
    /\ isLiveActive' = FALSE
    /\ OnlyToggle

\* getUserMedia resolves for a client and ai.live.connect is called
TgMediaGranted ==
    /\ \E c \in DOMAIN clients :
         /\ clients[c].connectPc = "awaitMedia"
         /\ clients' = [clients EXCEPT ![c].connectPc = "awaitSession",
                                       ![c].transport = "connecting"]
    /\ UNCHANGED <<liveClientRef, isLiveActive>>
    /\ OnlyToggle

\* getUserMedia rejects: the catch of connect() notifies 'error'
TgMediaDenied ==
    /\ \E c \in DOMAIN clients :
         /\ clients[c].connectPc = "awaitMedia"
         /\ clients' = [clients EXCEPT ![c].connectPc = "done"]
    /\ Notified("error")
    /\ OnlyToggle

\* a client's transport opens: onopen notifies 'connected' and starts the
\* capture, then the session is assigned.  Creating a source on a closed
\* context may throw, which leaves the capture nodes unset.
TgTransportOpen ==
    /\ \E c \in DOMAIN clients :
         /\ clients[c].transport = "connecting"
         /\ \E created \in (IF clients[c].inputContext = "closed"
                            THEN BOOLEAN ELSE {TRUE}) :
              clients' = [clients EXCEPT
                  ![c].transport = "open",
                  ![c].session = "session",
                  ![c].connectPc = "done",
                  ![c].inputSource = IF created THEN "connected" ELSE @,
                  ![c].processor = IF created THEN "connected" ELSE @]
    /\ Notified("connected")
    /\ OnlyToggle

\* a client's transport fails to open: the catch notifies 'error'
TgTransportOpenFails ==
    /\ \E c \in DOMAIN clients :
         /\ clients[c].transport = "connecting"
         /\ clients' = [clients EXCEPT ![c].transport = "closed",
                                       ![c].connectPc = "done"]
    /\ Notified("error")
    /\ OnlyToggle

\* onerror of a client's open transport
TgTransportError ==
    /\ \E c \in DOMAIN clients :
         /\ clients[c].transport = "open"
         /\ clients' = [clients EXCEPT ![c].transport = "errored"]
    /\ Notified("error")
    /\ OnlyToggle

\* onclose of a client's transport: the peer closes, or the close that
\* follows an error or session.close()
TgTransportClose ==
    /\ \E c \in DOMAIN clients :
         /\ clients[c].transport \in {"open", "errored", "closing"}
         /\ clients' = [clients EXCEPT ![c].transport = "closed"]
    /\ Notified("disconnected")
    /\ OnlyToggle

\* ========================================================= specifications
InitStream ==
    /\ HistoryIdle
    /\ ToggleIdle
    /\ StreamInit /\ LiveIdle /\ VideoIdle /\ ImageIdle /\ AppIdle
    /\ ErrIdle /\ SpeechIdle /\ CodecIdle
NextStream ==
    \/ SrStart \/ SrStreamOpens \/ SrFails \/ SrChunk \/ SrStreamEnds
    \/ SrAbort
SpecStream == InitStream /\ [][NextStream]_vars

InitLive ==
    /\ HistoryIdle
    /\ ToggleIdle
    /\ StreamIdle /\ LiveInit /\ VideoIdle /\ ImageIdle /\ AppIdle
    /\ ErrIdle /\ SpeechIdle /\ CodecIdle
NextLive ==
    \/ LcConnect \/ LcMediaGranted \/ LcMediaDenied \/ LcTransportOpen
    \/ LcTransportOpenFails \/ LcMessage \/ LcTransportError
    \/ LcTransportClose \/ LcDisconnect \/ LcTick
SpecLive == InitLive /\ [][NextLive]_vars

\* the outbound half of the client: playback (LcMessage, LcTick) shares no
\* variable with capture and sending
NextLiveOut ==
    \/ LcConnect \/ LcMediaGranted \/ LcMediaDenied \/ LcTransportOpen
    \/ LcTransportOpenFails \/ LcAudioProcess \/ LcSendFrame
    \/ LcTransportError \/ LcTransportClose \/ LcDisconnect
SpecLiveOut == InitLive /\ [][NextLiveOut]_vars

InitVideo ==
    /\ HistoryIdle
    /\ ToggleIdle
    /\ StreamIdle /\ LiveIdle /\ VideoInit /\ ImageIdle /\ AppIdle
    /\ ErrIdle /\ SpeechIdle /\ CodecIdle
NextVideo ==
    \/ GvStart \/ GvInitial \/ GvPoll \/ GvPollAnswer \/ GvFinish \/ GvFails
SpecVideo == InitVideo /\ [][NextVideo]_vars
\* the function's own steps are taken when they can be: a resumed async
\* function runs on
SpecVideoFair ==
    /\ SpecVideo
    /\ WF_vars(GvStart) /\ WF_vars(GvPoll) /\ WF_vars(GvFinish)

InitImage ==
    /\ HistoryIdle
    /\ ToggleIdle
    /\ StreamIdle /\ LiveIdle /\ VideoIdle /\ ImageInit /\ AppIdle
    /\ ErrIdle /\ SpeechIdle /\ CodecIdle
NextImage == GiStart \/ GiAnswer \/ GiFails
SpecImage == InitImage /\ [][NextImage]_vars

InitApp ==
    /\ HistoryIdle
    /\ ToggleIdle
    /\ StreamIdle /\ LiveIdle /\ VideoIdle /\ ImageIdle /\ AppInit
    /\ ErrIdle /\ SpeechIdle /\ CodecIdle
NextApp ==
    \/ HandleSendMessage \/ AppChunk \/ AppReturns \/ AppThrows
    \/ HandleStopGeneration
SpecApp == InitApp /\ [][NextApp]_vars

InitToggle ==
    /\ HistoryIdle
    /\ StreamIdle /\ LiveIdle /\ VideoIdle /\ ImageIdle /\ AppIdle
    /\ ErrIdle /\ SpeechIdle /\ CodecIdle /\ ToggleInit
NextToggle ==
    \/ HandleLiveToggleOn \/ HandleLiveToggleOff \/ TgMediaGranted
    \/ TgMediaDenied \/ TgTransportOpen \/ TgTransportOpenFails
    \/ TgTransportError \/ TgTransportClose
SpecToggle == InitToggle /\ [][NextToggle]_vars

InitHistory ==
    /\ StreamIdle /\ LiveIdle /\ VideoIdle /\ ImageIdle /\ AppIdle
    /\ ErrIdle /\ SpeechIdle /\ CodecIdle /\ ToggleIdle /\ HistoryInit
NextHistory == HsSend \/ HsChunk \/ HsReturns \/ HsThrows \/ HsStop
SpecHistory == InitHistory /\ [][NextHistory]_vars

InitMapError ==
    /\ HistoryIdle
    /\ ToggleIdle
    /\ StreamIdle /\ LiveIdle /\ VideoIdle /\ ImageIdle /\ AppIdle
    /\ SpeechIdle /\ CodecIdle
    /\ ErrInit
NextMapError == MeReturn
SpecMapError == InitMapError /\ [][NextMapError]_vars

InitSpeech ==
    /\ HistoryIdle
    /\ ToggleIdle
    /\ StreamIdle /\ LiveIdle /\ VideoIdle /\ ImageIdle /\ AppIdle
    /\ ErrIdle /\ SpeechInit /\ CodecIdle
NextSpeech == GsStart \/ GsAnswer \/ GsFails
SpecSpeech == InitSpeech /\ [][NextSpeech]_vars

\* the three single-request media pathways; one of them is called
InitMedia ==
    /\ HistoryIdle
    /\ ToggleIdle
    /\ StreamIdle /\ LiveIdle /\ AppIdle /\ ErrIdle /\ CodecIdle
    /\ \/ ImageInit /\ VideoIdle /\ SpeechIdle
       \/ ImageIdle /\ VideoInit /\ SpeechIdle
       \/ ImageIdle /\ VideoIdle /\ SpeechInit
NextMedia == NextImage \/ NextVideo \/ NextSpeech
SpecMedia == InitMedia /\ [][NextMedia]_vars

InitCodec ==
    /\ HistoryIdle
    /\ ToggleIdle
    /\ StreamIdle /\ LiveIdle /\ VideoIdle /\ ImageIdle /\ AppIdle
    /\ ErrIdle /\ SpeechIdle /\ CodecInit
NextCodec == CdEncode \/ CdDecode
SpecCodec == InitCodec /\ [][NextCodec]_vars

\* ================================================================= claims
IsTerminal(status) == status \in {"disconnected", "error"}
Terminals == {i \in DOMAIN statusLog : IsTerminal(statusLog[i])}
NonEmpty(text) == text # << >>

\* C1: once the signal is aborted after N fragments were delivered, the call
\* returns the concatenation of those N fragments, calls onChunk no more and
\* raises nothing, however the stream continues.
C1_CancelReturnsDelivered ==
    (signal = "aborted" /\ srPc \in {"returned", "thrown"})
        => /\ srPc = "returned"
           /\ srResult = Concat(atAbort)
           /\ chunks = atAbort

\* C2: the onChunk arguments are the non-empty fragments received before
\* cancellation was observed, one call per fragment, in the order received.
C2_ChunksInArrivalOrder == chunks = SelectSeq(received, NonEmpty)

C2_Witness ==
    /\ srPc = "returned" /\ signal = "aborted"
    /\ Len(chunks) = 2 /\ chunks[1] # chunks[2]
    /\ Len(received) = 3

\* C3: a LiveClient notifies a terminal status ('disconnected' or 'error')
\* at most once, and never both.
C3_OneTerminalStatus == Cardinality(Terminals) <= 1

\* C4: once a session has ended (a terminal status was notified), the
\* capture source and the processing node are disconnected, both audio
\* contexts are closed and the transport is closed.
C4_ReleasedWhenEnded ==
    Terminals # {}
        => /\ inputSource # "connected" /\ processor # "connected"
           /\ inputContext # "running" /\ outputContext # "running"
           /\ transport \notin {"connecting", "open"}

\* C5: a clip that arrives while the cursor is not behind the clock starts
\* at the cursor, which is the previous clip's start plus its duration.
C5_BackToBack ==
    \A i \in DOMAIN scheduled :
        scheduled[i].cursor >= scheduled[i].now
            => /\ scheduled[i].start = scheduled[i].cursor
               /\ i > 1 => scheduled[i].start =
                     scheduled[i - 1].start + scheduled[i - 1].duration

C5_Witness ==
    /\ Len(scheduled) >= 2
    /\ scheduled[2].now > scheduled[1].now
    /\ scheduled[2].cursor > scheduled[2].now

\* C6: a clip that arrives while the cursor is behind the clock starts at
\* the clock's time; no clip starts before the clock's time at scheduling;
\* after scheduling the cursor is the clip's start plus its duration.
C6_ResetWhenBehind ==
    /\ \A i \in DOMAIN scheduled :
         /\ scheduled[i].cursor < scheduled[i].now
                => scheduled[i].start = scheduled[i].now
         /\ scheduled[i].start >= scheduled[i].now
    /\ scheduled # << >>
         => nextStartTime = scheduled[Len(scheduled)].start
                            + scheduled[Len(scheduled)].duration

C6_Witness ==
    /\ Len(scheduled) >= 2
    /\ scheduled[2].cursor > 0
    /\ scheduled[2].cursor < scheduled[2].now

\* C7: no poll is made after an answer with done = true, and when the
\* initial operation is not done and the call returns, the answers are K
\* times done = false and then done = true with a URI, K + 1 polls were
\* made and the result is built from that URI.
C7_PollsUntilDone ==
    /\ \A i \in DOMAIN pollLog :
         pollLog[i].done => i = Len(pollLog) /\ pollCalls = Len(pollLog)
    /\ (gvPc = "returned" /\ ~gvInitialDone)
         => /\ pollLog # << >>
            /\ pollCalls = Len(pollLog)
            /\ \A i \in 1..(Len(pollLog) - 1) : ~pollLog[i].done
            /\ pollLog[Len(pollLog)].done
            /\ pollLog[Len(pollLog)].uri # << >>
            /\ gvResult = pollLog[Len(pollLog)].uri \o <<"&key=", API_KEY>>

C7_Witness ==
    /\ gvPc = "returned" /\ ~gvInitialDone
    /\ pollCalls = 3 /\ ~pollLog[1].done /\ ~pollLog[2].done

\* C8: in every mode of streamResponse, a request with an audio attachment
\* is sent to the audio model.
C8_AudioOverridesMode ==
    (srPc \notin {"idle", "start"}
     /\ \E i \in DOMAIN srAttachments : srAttachments[i].type = "audio")
        => srRequest.model = AUDIO_MODEL

\* The service function the claim gives each mode.
ExpectedFn(mode) ==
    CASE mode = "image" -> "generateImage"
      [] mode = "video" -> "generateVideo"
      [] mode = "tts"   -> "generateSpeech"
      [] mode \in {"chat", "thinking", "fast", "maps"} -> "streamResponse"

OneCallPerSend ==
    \A r \in DOMAIN requests :
        LET mine == {i \in DOMAIN calls : calls[i].request = r} IN
        IF requests[r].st = "none" THEN mine = {}
        ELSE /\ Cardinality(mine) = 1
             /\ \A i \in mine : calls[i].fn = ExpectedFn(requests[r].mode)

\* C9 as stated: each send invokes exactly the generation function of its
\* mode (the session title call of the first send aside), and
\* in streamResponse thinking sets the reasoning budget, maps attaches the
\* location tool, fast selects the low-latency model and chat the default
\* model.
C9_DispatchByModeAlone ==
    /\ OneCallPerSend
    /\ \A i \in DOMAIN lastChat :
         LET c == lastChat[i] IN
         /\ c.mode = "thinking" => c.config.thinkingConfig = {32768}
         /\ c.mode = "maps" => c.config.tools = {"googleMaps"}
         /\ c.mode = "fast" => c.model = FAST_MODEL
         /\ c.mode = "chat" => c.model = CHAT_MODEL

\* C9 amended: as above, but chat selects the default model only when no
\* attachment is audio, and the audio model otherwise.
C9_DispatchByMode ==
    /\ OneCallPerSend
    /\ \A i \in DOMAIN lastChat :
         LET c == lastChat[i] IN
         /\ c.mode = "thinking" => c.config.thinkingConfig = {32768}
         /\ c.mode = "maps" => c.config.tools = {"googleMaps"}
         /\ c.mode = "fast" => c.model = FAST_MODEL
         /\ c.mode = "chat" =>
               c.model = IF c.audio THEN AUDIO_MODEL ELSE CHAT_MODEL

C9_Witness ==
    /\ Len(calls) = 2
    /\ calls[1].fn = "generateSpeech"
    /\ calls[2].fn = "streamResponse"
    /\ lastChat # << >> /\ lastChat[1].mode = "chat" /\ lastChat[1].audio

\* C10: generateImage issues exactly one backend call, the edit call
\* (prompt and source image) when an attachment is given and the generate
\* call (prompt only, the given aspect ratio and image size) otherwise, and
\* a returned value is the data reference of the first inline image part.
C10_ImagePathway ==
    /\ Len(giCalls) = (IF giPc = "start" THEN 0 ELSE 1)
    /\ \A i \in DOMAIN giCalls :
         LET call == giCalls[i]
             att  == giInput.attachment
             cfg  == giInput.config
         IN IF att # << >>
            THEN call = [model |-> IMAGE_EDIT_MODEL,
                         parts |-> <<[text |-> giInput.prompt],
                                     [inlineData |-> att[1]]>>]
            ELSE /\ call.model = IMAGE_GEN_MODEL
                 /\ call.parts = <<[text |-> giInput.prompt]>>
                 /\ cfg.aspectRatio # ""
                       => call.imageConfig.aspectRatio = cfg.aspectRatio
                 /\ cfg.imageSize # ""
                       => call.imageConfig.imageSize = cfg.imageSize
    /\ giPc = "returned"
         => \E i \in DOMAIN giResponse :
              /\ "inlineData" \in DOMAIN giResponse[i]
              /\ \A j \in 1..(i - 1) : "inlineData" \notin DOMAIN giResponse[j]
              /\ LET d == giResponse[i].inlineData IN
                 giResult = <<"data:", d.mimeType.type, "/",
                              d.mimeType.subtype, ";base64,", d.data>>

C10_Witness ==
    /\ giPc = "returned"
    /\ giInput.attachment # << >>
    /\ Len(giResponse) = 2
    /\ "inlineData" \notin DOMAIN giResponse[1]

\* C12: a failure of the stream while the signal is not aborted makes the
\* call throw mapError(failure); it never returns then, and the call opens
\* no second stream.
C12_FailureIsRaised ==
    /\ streamCalls <= 1
    /\ \A i \in DOMAIN srFailure :
         srFailure[i].signal # "aborted"
            => /\ srPc = "thrown"
               /\ srResult = mapError(srFailure[i].message)
               /\ streamCalls = 1

C12_Witness ==
    /\ srPc = "thrown" /\ signal = "live"
    /\ Len(chunks) = 2
    /\ srFailure # << >> /\ srFailure[1].message = <<"S", "A", "F", "E", "T", "Y">>
    /\ srResult = <<"Content blocked by safety settings.">>

\* the message contains the word, whatever the case of its letters
Mentions(message, word) ==
    \E i \in 0..(Len(message) - Len(word)) :
        \A j \in 1..Len(word) : Lower(message[i + j]) = word[j]
QuotaWords == {<<"4", "2", "9">>,
               <<"e", "x", "h", "a", "u", "s", "t", "e", "d">>}
IndicatesQuota(message) == \E w \in QuotaWords : Mentions(message, w)
IndicatesSafety(message) ==
    Mentions(message, <<"s", "a", "f", "e", "t", "y">>)
RateLimited == <<"Rate limit exceeded. Try again later.">>
PolicyBlocked == <<"Content blocked by safety settings.">>
Generic(message) ==
    IF message # << >> THEN message ELSE <<"An unexpected error occurred.">>

\* C13 as stated: a message indicating quota exhaustion yields the
\* rate-limited error, a message indicating a safety rejection yields the
\* policy-blocked error, and every other message yields the generic error
\* (the original message, or the fallback text when there is none).
C13_Classifies ==
    mePc = "returned" =>
        /\ IndicatesQuota(meMessage) => meResult = RateLimited
        /\ IndicatesSafety(meMessage) => meResult = PolicyBlocked
        /\ ~IndicatesQuota(meMessage) /\ ~IndicatesSafety(meMessage)
              => meResult = Generic(meMessage)

\* C13 amended: the quota test comes first, so a message indicating a
\* safety rejection yields the policy-blocked error only when it does not
\* also indicate quota exhaustion; the rest as stated.
C13_ClassifiesInOrder ==
    mePc = "returned" =>
        /\ IndicatesQuota(meMessage) => meResult = RateLimited
        /\ IndicatesSafety(meMessage) /\ ~IndicatesQuota(meMessage)
              => meResult = PolicyBlocked
        /\ ~IndicatesQuota(meMessage) /\ ~IndicatesSafety(meMessage)
              => meResult = Generic(meMessage)

C13_Witness ==
    /\ mePc = "returned"
    /\ meMessage = <<"o", "S", "A", "F", "E", "T", "Y", "o">>
    /\ meResult = PolicyBlocked

ErrorsNotified == Cardinality({i \in DOMAIN statusLog : statusLog[i] = "error"})

\* C14: connect() never raises; a microphone denial, a transport open
\* failure and a mid-session transport error are each notified as 'error';
\* after any of them the client makes no further ai.live.connect call.
C14_FailuresAreNotified ==
    /\ connectPc # "raised"
    /\ ErrorsNotified >= Len(failures)
    /\ \A i \in DOMAIN failures : openAttempts = failures[i].attempts

C14_Witness ==
    /\ connectPc = "done"
    /\ Len(failures) = 1 /\ failures[1].kind = "open"
    /\ openAttempts = 1
    /\ statusLog = <<"error", "disconnected">>

\* C19: the frames handed to sendRealtimeInput are the captured frames in
\* capture order, each once; a captured frame is either sent or still
\* queued behind the ones captured before it; no frame is sent before the
\* transport has opened.
C19_FramesInCaptureOrder ==
    /\ \A i \in DOMAIN sent : sent[i].frame = i /\ sent[i].opened
    /\ \A i \in DOMAIN pending : pending[i] = Len(sent) + i
    /\ captured = Len(sent) + Len(pending)

C19_Witness ==
    /\ captured = 2 /\ pending = << >>
    /\ Len(sent) = 2 /\ sent[1].frame = 1 /\ sent[2].frame = 2
    /\ transport = "open"

\* the fields of a WAV container, read back from its bytes
U16At(blob, offset) == blob[offset + 1] + 256 * blob[offset + 2]
U32At(blob, offset) ==
    blob[offset + 1] + 256 * blob[offset + 2] + 65536 * blob[offset + 3]
    + 16777216 * blob[offset + 4]
\* the call wrapped a payload of even length L > 0
Wrapped ==
    /\ gsPc = "returned" /\ gsPcm # << >>
    /\ Len(gsPcm[1]) > 0 /\ Len(gsPcm[1]) % 2 = 0

\* C15: for every payload of even byte length L > 0 the RIFF chunk size
\* field (offset 4) is 36 + L and the data sub-chunk size field (offset 40)
\* is L.
C15_HeaderSizes ==
    /\ gsPcm # << >> /\ Len(gsPcm[1]) > 0 /\ Len(gsPcm[1]) % 2 = 0
          /\ gsPc \in {"returned", "thrown"}
       => gsPc = "returned"
    /\ Wrapped =>
          /\ U32At(gsResult, 4) = 36 + Len(gsPcm[1])
          /\ U32At(gsResult, 40) = Len(gsPcm[1])

C15_Witness ==
    /\ Wrapped /\ Len(gsPcm[1]) = 4
    /\ U32At(gsResult, 4) = 40 /\ U32At(gsResult, 40) = 4

\* C16: the output is a 44-byte header immediately followed by the payload
\* bytes unchanged: stripping the first 44 bytes yields the payload.
C16_PayloadRoundTrip ==
    Wrapped =>
        /\ Len(gsResult) = 44 + Len(gsPcm[1])
        /\ SubSeq(gsResult, 45, Len(gsResult)) = gsPcm[1]

C16_Witness ==
    /\ Wrapped
    /\ gsPcm[1] = <<255, 0, 127, 255>>
    /\ SubSeq(gsResult, 45, 48) = <<255, 0, 127, 255>>

\* C17: the container of a tts request has format tag 1, 1 channel, sample
\* rate 24000, 16 bits per sample, byte rate 48000 and block align 2, for
\* every synthesized payload.
C17_FormatFields ==
    Wrapped =>
        /\ U16At(gsResult, 20) = 1
        /\ U16At(gsResult, 22) = 1
        /\ U32At(gsResult, 24) = 24000
        /\ U32At(gsResult, 28) = 48000
        /\ U16At(gsResult, 32) = 2
        /\ U16At(gsResult, 34) = 16

C17_Witness ==
    /\ Wrapped /\ Len(gsPcm[1]) = 2
    /\ SubSeq(gsResult, 21, 36)
         = <<1, 0, 1, 0, 192, 93, 0, 0, 128, 187, 0, 0, 2, 0, 16, 0>>

\* the answer carries no image part
NoImagePart == \A i \in DOMAIN giResponse : "inlineData" \notin DOMAIN giResponse[i]
\* generateVideo holds an operation (the variable is a record)
HoldsOperation ==
    \/ gvPc \in {"loop", "awaitPoll", "returned"}
    \/ gvPc = "thrown" /\ (gvInitialDone \/ pollCalls > 0)
DoneWithoutUri ==
    HoldsOperation /\ operation.done /\ operation.uri = << >>
\* the answer carries no audio payload
NoAudioPayload == gsPcm = << >> \/ gsPcm[1] = << >>

\* C11: when the backend answers without an image part (generateImage),
\* with a done operation without a URI (generateVideo) or without an audio
\* payload (generateSpeech), the call throws, never returns a reference,
\* and no further backend call is issued for the request.
C11_MissingResultIsTerminal ==
    /\ giAnswered /\ NoImagePart
          => /\ giPc = "thrown" /\ Len(giCalls) = 1
             /\ giResult \in {<<"No image generated.">>,
                              <<"No image returned from edit.">>}
    /\ DoneWithoutUri
          => /\ gvPc \in {"loop", "thrown"}
             /\ pollCalls = Len(pollLog)
             /\ gvPc = "thrown" => gvResult = <<"Video generation failed.">>
    /\ gsAnswered /\ NoAudioPayload
          => /\ gsPc = "thrown" /\ Len(gsCalls) = 1
             /\ gsResult = <<"No audio generated">>

C11_Witness ==
    /\ gvPc = "thrown" /\ DoneWithoutUri
    /\ pollCalls = 2 /\ Len(pollLog) = 2
    /\ gvResult = <<"Video generation failed.">>

\* C20 as stated: in the pathways that consume the generation config, an
\* omitted aspectRatio yields '1:1', an omitted imageSize yields '1K' and an
\* omitted resolution yields '720p'.
C20_Defaults ==
    /\ \A i \in DOMAIN giCalls :
         "imageConfig" \in DOMAIN giCalls[i] =>
            /\ giInput.config.aspectRatio = ""
                  => giCalls[i].imageConfig.aspectRatio = "1:1"
            /\ giInput.config.imageSize = ""
                  => giCalls[i].imageConfig.imageSize = "1K"
    /\ gvPc \notin {"idle", "start"} =>
            /\ gvInput.aspectRatio = ""
                  => gvPayload.config.aspectRatio = "1:1"
            /\ gvInput.resolution = ""
                  => gvPayload.config.resolution = "720p"

\* C20 amended: as stated for image generation and for the resolution; in
\* video generation an omitted aspectRatio yields '16:9'.
C20_DefaultsPerPathway ==
    /\ \A i \in DOMAIN giCalls :
         "imageConfig" \in DOMAIN giCalls[i] =>
            /\ giInput.config.aspectRatio = ""
                  => giCalls[i].imageConfig.aspectRatio = "1:1"
            /\ giInput.config.imageSize = ""
                  => giCalls[i].imageConfig.imageSize = "1K"
    /\ gvPc \notin {"idle", "start"} =>
            /\ gvInput.aspectRatio = ""
                  => gvPayload.config.aspectRatio = "16:9"
            /\ gvInput.resolution = ""
                  => gvPayload.config.resolution = "720p"

C20_Witness ==
    /\ gvPc = "returned"
    /\ gvInput.aspectRatio = "" /\ gvInput.resolution = ""
    /\ gvPayload.config.aspectRatio = "16:9"
    /\ gvPayload.config.resolution = "720p"

\* x - y in units of 1 / (32768 * x.den), for y a fraction over 32768
ErrorOf(x, y) == (x.num * 32767 - y.num * x.den) + x.num
Abs(n) == IF n < 0 THEN -n ELSE n
\* the encoding keeps the order of the samples and neither wraps nor
\* overflows: the sign is kept and +1.0 and -1.0 give 32767 and -32767
OrderAndRangeKept ==
    cdPc \in {"encoded", "decoded"} =>
        /\ pcm16[1] <= pcm16[2]
        /\ \A i \in DOMAIN pcm16 :
             /\ pcm16[i] \in (-32767)..32767
             /\ inputData[i].num >= 0 => pcm16[i] >= 0
             /\ inputData[i].num <= 0 => pcm16[i] <= 0
             /\ inputData[i].num = inputData[i].den => pcm16[i] = 32767
             /\ inputData[i].num = -inputData[i].den => pcm16[i] = -32767

\* C18 as stated: encoding as trunc(x * 32767) and decoding as / 32768
\* reproduces every x of [-1, 1] within 1/32768; the encoding is monotonic
\* and +1.0 and -1.0 do not overflow or wrap.
C18_WithinOneStep ==
    /\ OrderAndRangeKept
    /\ cdPc = "decoded" =>
         \A i \in DOMAIN inputData :
            /\ channelData[i].den = 32768
            /\ Abs(ErrorOf(inputData[i], channelData[i])) <= inputData[i].den

\* C18 amended: the round trip reproduces every x of [-1, 1] within less
\* than 2/32768 (one step of truncation plus |x| steps of scale mismatch);
\* the encoding is monotonic and +1.0 and -1.0 do not overflow or wrap.
C18_WithinTwoSteps ==
    /\ OrderAndRangeKept
    /\ cdPc = "decoded" =>
         \A i \in DOMAIN inputData :
            /\ channelData[i].den = 32768
            /\ Abs(ErrorOf(inputData[i], channelData[i]))
                  < 2 * inputData[i].den

C18_Witness ==
    /\ cdPc = "decoded"
    /\ inputData[2].num = inputData[2].den
    /\ pcm16[2] = 32767
    /\ channelData[2] = [num |-> 32767, den |-> 32768]
    /\ Abs(ErrorOf(inputData[1], channelData[1])) > inputData[1].den

\* C26: at every point of the loop the accumulator is the concatenation of
\* the fragments delivered so far; when the stream is exhausted without
\* cancellation the call returns the concatenation, in delivery order, of
\* every onChunk argument.
C26_ReturnsAllDelivered ==
    /\ srPc = "loop" => fullText = Concat(chunks)
    /\ srPc = "returned" /\ signal # "aborted" => srResult = Concat(chunks)

C26_Witness ==
    /\ srPc = "returned" /\ signal = "live"
    /\ chunks = << <<"b", "a">>, <<"a">> >>
    /\ srResult = <<"b", "a", "a">>

\* each clip starts no earlier than the end of the clip scheduled before it
NoOverlap ==
    \A i \in 2..Len(scheduled) :
        scheduled[i].start >= scheduled[i - 1].start + scheduled[i - 1].duration

\* C29: the cursor nextStartTime never decreases, and the clips, in arrival
\* order, are scheduled at non-overlapping times: each starts at or after
\* the start of the previous one plus its duration.
C29_CursorMonotonic ==
    [](NoOverlap) /\ [][nextStartTime' >= nextStartTime]_vars

C29_Witness ==
    /\ Len(scheduled) = 3
    /\ scheduled[2].start = scheduled[1].start + scheduled[1].duration
    /\ scheduled[3].start > scheduled[2].start + scheduled[2].duration
    /\ nextStartTime = scheduled[3].start + scheduled[3].duration

\* C21: once disconnect() has returned, whatever the lifecycle state it was
\* called in, the transport is closed (or closing) and stays so, and no
\* outbound frame is sent afterwards.
C21_DisconnectCloses ==
    disconnectCalled # << >> =>
        /\ transport \in {"none", "closing", "closed"}
        /\ Len(sent) = disconnectCalled[1]

\* C30: after a terminal status ('disconnected' or 'error') was notified,
\* the client notifies no 'connected', starts no capture and schedules no
\* inbound clip.
C30_NothingAfterEnd == afterEnd = {}

\* the held operation is done
DoneHeld == HoldsOperation /\ operation.done
VideoEnded == gvPc \in {"returned", "thrown"}
\* the call ends only on a done operation or a rejected backend call, never
\* on a count of polls; every poll comes after the same wait
PollsWithoutLimit ==
    /\ VideoEnded => gvFailed \/ DoneHeld
    /\ Len(waits) = pollCalls
    /\ \A i \in DOMAIN waits : waits[i] = 5000

\* C25: while the held operation is not done the poller keeps polling, with
\* no maximum count and the same fixed wait before each poll; once the
\* backend has answered done, generateVideo eventually returns or raises.
C25_UnboundedPolling == [](PollsWithoutLimit) /\ (DoneHeld ~> VideoEnded)

C25_Witness ==
    /\ gvPc = "returned" /\ pollCalls = MaxPolls
    /\ waits = [i \in 1..MaxPolls |-> 5000]
    /\ ~gvInitialDone /\ DoneHeld

SingleShot(mode) == mode \in {"image", "video", "tts"}
InFlight == {r \in DOMAIN requests : requests[r].st = "inflight"}

\* C22: a model message is created with its streaming flag set, and the flag
\* is cleared once its request has ended, whether it completed, was
\* cancelled or failed, in every mode.
C22_FlagClearedAtEnd ==
    \A r \in DOMAIN requests :
        /\ requests[r].st = "inflight" => requests[r].isStreaming
        /\ requests[r].st = "done" => ~requests[r].isStreaming

C22_Witness ==
    /\ requests[1].st = "done" /\ 1 \in aborted /\ ~requests[1].isStreaming
    /\ requests[2].st = "done" /\ requests[2].isError
    /\ ~requests[2].isStreaming

\* C23: at most one generation request is in flight at any time.
C23_OneInFlight == Cardinality(InFlight) <= 1

\* C27: a cancelled streaming request's message keeps exactly the content it
\* had when it was cancelled, and its error flag is not set.
C27_CancelKeepsContent ==
    \A r \in DOMAIN requests :
        r \in aborted /\ ~SingleShot(requests[r].mode) =>
            /\ requests[r].content = requests[r].atStop[1]
            /\ ~requests[r].isError

C27_Witness ==
    /\ 1 \in aborted /\ requests[1].mode = "chat"
    /\ requests[1].st = "done"
    /\ requests[1].atStop = << <<"a">> >> /\ requests[1].content = <<"a">>
    /\ requests[2].st = "inflight"

\* C28: when the call of a single-shot request (image, video, tts) throws,
\* its model message is marked as errored with the thrown (normalized)
\* message as content, also when stop was pressed while it was in flight.
C28_SingleShotErrorShown ==
    \A r \in DOMAIN requests :
        requests[r].thrown # << >> /\ SingleShot(requests[r].mode) =>
            /\ requests[r].isError
            /\ requests[r].content = requests[r].thrown[1]

C28_Witness ==
    /\ 1 \in aborted /\ requests[1].mode = "video"
    /\ requests[1].thrown = << <<"Rate limit exceeded. Try again later.">> >>
    /\ requests[1].isError /\ requests[1].st = "done"

\* a client holds the transport while it is open, and the microphone while
\* its processor is connected in a running input context
HoldsTransport(c) == c.transport = "open"
HoldsCapture(c) == c.processor = "connected" /\ c.inputContext = "running"
Holding == {c \in DOMAIN clients :
               HoldsTransport(clients[c]) \/ HoldsCapture(clients[c])}

\* C24: over any sequence of live-toggle clicks and transport events, at
\* most one LiveClient at a time holds an open transport or a live
\* microphone capture.
C24_OneLiveClient == Cardinality(Holding) <= 1

\* the streaming requests that are in flight and whose signal is not aborted
StreamsInFlight ==
    {r \in InFlight : ~SingleShot(requests[r].mode) /\ r \notin aborted}

\* C31: whenever a streaming request is in flight, isStreaming is true and
\* abortControllerRef holds that request's controller, so that stop aborts
\* the stream in flight.
C31_StopReachesStream ==
    \A r \in StreamsInFlight : isStreaming /\ abortControllerRef = r

\* the positions of the messages that are not errored and have content or
\* attachments, and the place of such a position among them
Remaining(messages) ==
    {i \in DOMAIN messages :
        /\ ~messages[i].isError
        /\ messages[i].content # << >> \/ messages[i].attachments # << >>}
Place(messages, i) == Cardinality({j \in Remaining(messages) : j <= i})

TextOf(entry) ==
    IF \E k \in DOMAIN entry.parts : "text" \in DOMAIN entry.parts[k]
    THEN entry.parts[1].text ELSE << >>

\* C32: the history streamResponse sends is its input message list without
\* the errored messages and without the messages that have neither content
\* nor attachments, the others in their order with their roles; the input
\* holds neither the user message of the send nor its model placeholder.
C32_HistoryIsFilteredPast ==
    \A s \in DOMAIN sends :
        Streams(sends[s].mode) =>
            LET input   == sends[s].input[1]
                history == sends[s].history
            IN /\ Len(history) = Cardinality(Remaining(input))
               /\ \A i \in Remaining(input) :
                    /\ history[Place(input, i)].role = input[i].role
                    /\ TextOf(history[Place(input, i)]) = input[i].content
               /\ \A i \in DOMAIN input :
                    input[i].id \notin {sends[s].user, sends[s].model}

C32_Witness ==
    /\ Len(sends) = 2 /\ Streams(sends[2].mode)
    /\ LET input == sends[2].input[1] IN
         /\ Len(input) = 2
         /\ input[1].content = << >> /\ input[1].attachments # << >>
         /\ input[2].isError /\ input[2].content # << >>
         /\ Len(sends[2].history) = 1
         /\ sends[2].history[1].role = "user"

====
